---------------------------- MODULE Spec2Model ----------------------------
(***************************************************************************)
(* A model of the translation-orchestration core of json-translate:        *)
(*   - ParallelTranslator (src/app/lib/translation/openai-translator.ts,   *)
(*     lines 191-469): a shared queue drained by up to                     *)
(*     maxConcurrentRequests workers, a fixed-interval rate limiter, a     *)
(*     fingerprint cache and cooperative cancellation;                     *)
(*   - JSONProcessor (src/unnamed/part_000): leaf extraction and path      *)
(*     addressed assignment.                                               *)
(* JavaScript runs one synchronous segment at a time; every action below   *)
(* is one such segment (from a resumption point to the next await).        *)
(***************************************************************************)
EXTENDS Integers, Sequences, FiniteSets, TLC

---------------------------------------------------------------------------
(* Bounds of the model *)

MaxItems == 3
RequestsPerMinute == 2
MaxTicks == 4

(* Program constants *)

MinuteMs == 60000
PollMs == 50

Min(a, b) == IF a <= b THEN a ELSE b

\* The clock advances in steps of TickMs milliseconds.
TickMs == MinuteMs \div 4

\* Date.now() when the run starts: far more than a minute after the epoch,
\* so that the first request never waits (lastRequestTime starts at 0).
StartNow == 2 * MinuteMs
Horizon == StartNow + MaxTicks * TickMs

\* The source texts of the items
Values == {"Save", "Cancel"}
Translations == {"T1", "T2"}
Undefined == "undefined"
Providers == {"openai", "bogus"}
\* rateLimitConfig.maxConcurrentRequests of the runs explored
ConcurrencyLevels == {1, 2}
Workers == 1 .. Cardinality(ConcurrencyLevels)

---------------------------------------------------------------------------
VARIABLES
  \* ParallelTranslator: configuration and fields
  items,                  \* the input array of translateParallel
  provider,               \* config.provider
  maxConcurrentRequests,  \* rateLimitConfig.maxConcurrentRequests
  requestQueue,           \* this.requestQueue (indices into items)
  activeRequests,         \* this.activeRequests
  completedCount,         \* this.completedCount
  cache,                  \* this.cache, keyed by source text
  requestTimes,           \* this.requestTimes
  lastRequestTime,        \* this.lastRequestTime
  cancelled,              \* this.cancelled
  \* translateParallel: locals and the state of its coroutines
  results,                \* const results
  starting,               \* the for loop's i (next worker to start), 0 before the call
  pc,                     \* where each processNext coroutine is suspended
  cur,                    \* the item a worker holds
  wake,                   \* when a worker's setTimeout fires
  pend,                   \* the result a worker's processItem resolved with
  promise,                \* state of the promise translateParallel returned
  returned,               \* the array it resolved with
  now,                    \* Date.now()
  \* history (not program state)
  calls,                  \* backend translateKey calls, in start order
  failedItems,            \* items whose backend call failed or threw
  cancelCalled,           \* cancel() was called during the run
  callbackThrew,          \* a caller-supplied callback threw
  pushed,                 \* item ids in the order their results were pushed
  atCancel,               \* the workers' positions when cancel() was called
  progress,               \* the records passed to onProgress, in call order
  \* JSONProcessor: the values its caller holds
  source,                 \* the parsed source document
  extracted,              \* what extractTranslatableKeys returned
  translationMap,         \* the Map given to applyTranslations, as entries
  translated,             \* the translatedJSON applyTranslations returned
  applyErrors,            \* the errors applyTranslations returned
  progressItems,          \* the page's state.progressItems
  produced,               \* the page has set state.translatedJSON
  step,                   \* which of the calls have been made
  retryItems,             \* handleRetryFailed: const retryItems
  retryLeft,              \* the retry items whose result has not come yet
  \* history (not program state)
  beforeRetry,            \* state.progressItems when retry was pressed
  retryOf,                \* the progress item each retry item was made from
  retryOutcome,           \* whether each retry item's own call succeeded
  \* BatchTranslator: it declares the fields activeRequests, completedCount,
  \* cache, requestTimes and lastRequestTime as ParallelTranslator does, and
  \* the variables of those names (with items, provider,
  \* maxConcurrentRequests, starting, promise, returned, now) hold them in a
  \* translateBatch run.
  maxBatchSize,           \* rateLimitConfig.maxBatchSize
  batches,                \* const batches, what is left of it
  allResults,             \* const allResults
  launched,               \* the number of processNextBatch calls made
  held,                   \* the batch each processNextBatch call shifted
  batchPc,                \* where each processNextBatch call is suspended
  batchWake,              \* when its waitForRateLimit timer fires
  uncachedItems,          \* processBatch: const uncachedItems
  batchResults,           \* processBatch: const results
  fallbackAt,             \* processBatch: position in the individual loop
  microtasks,             \* the engine's queue of promise reactions
  mainPc,                 \* where translateBatch itself is suspended
  mainWake,               \* when its 100 ms timer fires
  initialBatches,         \* const initialBatches
  initialPromises,        \* the calls in promises that have not settled
  \* history (not program state)
  batchFailed,            \* calls whose batch request returned success=false
  parseFailed,            \* ids whose position parsed to the empty string
  \* ParallelTranslator.retryFailed
  previousResults,        \* its parameter previousResults
  originalItems,          \* history: the items of the run that produced them
  retryPc,                \* where the call is
  updatedResults,         \* the array it resolved with
  \* Translator.translateKey (OpenAITranslator, AnthropicTranslator)
  keyConfig,              \* this.config
  keyPc,                  \* where the call is suspended
  response,               \* what fetch resolved with
  keyResult,              \* the TranslationResult the call resolved with
  fetches,                \* history: the number of fetch calls made
  \* TranslationPage (src/unnamed/part_006); state.progressItems is the
  \* variable progressItems above
  originalJSONText,       \* state.originalJSON
  validation,             \* what validateForTranslation returned for it
  isConfigured,           \* state.isConfigured
  useOptimizedTranslation,\* state.useOptimizedTranslation
  isTranslating,          \* state.isTranslating
  isPaused,               \* state.isPaused
  currentIndex,           \* state.currentIndex
  translationInProgress,  \* translationInProgress.current
  loops,                  \* the start, resume and retry handler calls made
  \* history (not program state)
  halted,                 \* the loops that were running at a pause or stop
  doneAtResume,           \* the items that were completed at a resume
  \* BatchTranslator.parseBatchResponse: arguments and locals
  batchResponse,          \* the response argument, a text
  parsedLines,            \* const translations of parseBatchResponse
  parsePc                 \* "init", then "returned"

parVars == <<items, provider, maxConcurrentRequests, requestQueue,
             activeRequests, completedCount, cache, requestTimes,
             lastRequestTime, cancelled, results, starting, pc, cur, wake,
             pend, promise, returned, now, calls, failedItems, cancelCalled,
             callbackThrew, pushed, atCancel, progress>>

jsonVars == <<source, extracted, translationMap, translated, applyErrors,
              progressItems, produced, step, retryItems, retryLeft,
              beforeRetry, retryOf, retryOutcome>>

\* handleRetryFailed has not been called.
NoRetry ==
  /\ retryItems = <<>>
  /\ retryLeft = {}
  /\ beforeRetry = <<>>
  /\ retryOf = <<>>
  /\ retryOutcome = <<>>

retryVars == <<retryItems, retryLeft, beforeRetry, retryOf, retryOutcome>>

batchVars == <<maxBatchSize, batches, allResults, launched, held, batchPc,
               batchWake, uncachedItems, batchResults, fallbackAt, microtasks,
               mainPc, mainWake, initialBatches, initialPromises, batchFailed,
               parseFailed>>

mergeVars == <<previousResults, originalItems, retryPc, updatedResults>>

keyVars == <<keyConfig, keyPc, response, keyResult, fetches>>

pageVars == <<originalJSONText, validation, isConfigured, useOptimizedTranslation,
              isTranslating, isPaused, currentIndex, translationInProgress,
              loops, halted, doneAtResume>>

parseVars == <<batchResponse, parsedLines, parsePc>>

vars == <<parVars, jsonVars, batchVars, mergeVars, keyVars, pageVars,
          parseVars>>

---------------------------------------------------------------------------
(* JSON values as the JavaScript engine holds them *)

\* A bound of the model: the number of nodes of the documents explored.
MaxNodes == 3

\* A string is a sequence of characters.  A node is a string, a number, a
\* boolean, null, undefined (a hole of an array), an object (props: its
\* members <<key, node>> in insertion order) or an array (elems, and props
\* for properties that are not indices).  s is the text of a primitive.
Str(s) == [t |-> "str", s |-> s, elems |-> <<>>, props |-> <<>>]
Num(s) == [t |-> "num", s |-> s, elems |-> <<>>, props |-> <<>>]
Bool(s) == [t |-> "bool", s |-> s, elems |-> <<>>, props |-> <<>>]
Null == [t |-> "null", s |-> <<>>, elems |-> <<>>, props |-> <<>>]
Undef == [t |-> "undef", s |-> <<>>, elems |-> <<>>, props |-> <<>>]
Obj(members) == [t |-> "obj", s |-> <<>>, elems |-> <<>>, props |-> members]
Arr(elems) == [t |-> "arr", s |-> <<>>, elems |-> elems, props |-> <<>>]

Digits == <<"0", "1", "2", "3", "4", "5", "6", "7", "8", "9">>

IsDigit(c) == \E i \in 1 .. Len(Digits) : Digits[i] = c

DigitValue(c) == (CHOOSE i \in 1 .. Len(Digits) : Digits[i] = c) - 1

\* parseInt(indexStr, 10) of a string of digits
RECURSIVE ParseInt(_)
ParseInt(ds) ==
  IF ds = <<>> THEN 0
  ELSE 10 * ParseInt(SubSeq(ds, 1, Len(ds) - 1)) + DigitValue(ds[Len(ds)])

\* `${index}` of a non-negative integer
RECURSIVE IntToString(_)
IntToString(n) ==
  IF n < 10 THEN <<Digits[n + 1]>>
  ELSE IntToString(n \div 10) \o <<Digits[(n % 10) + 1]>>

\* A property key that is an array index: a canonical decimal number.
IsArrayIndex(key) ==
  /\ key # <<>>
  /\ \A i \in 1 .. Len(key) : IsDigit(key[i])
  /\ (Len(key) = 1 \/ key[1] # "0")

\* !x : undefined, null, false, 0 and the empty string are falsy.
Falsy(x) ==
  \/ x.t \in {"undef", "null"}
  \/ x.t = "str" /\ x.s = <<>>
  \/ x.t = "num" /\ x.s = <<"0">>
  \/ x.t = "bool" /\ x.s = <<"f", "a", "l", "s", "e">>

IsWhitespace(c) == c = " "

\* String.prototype.trim
RECURSIVE Trim(_)
Trim(s) ==
  IF s = <<>> THEN s
  ELSE IF IsWhitespace(s[1]) THEN Trim(Tail(s))
  ELSE IF IsWhitespace(s[Len(s)]) THEN Trim(SubSeq(s, 1, Len(s) - 1))
  ELSE s

MemberIndex(members, key) ==
  IF \E i \in 1 .. Len(members) : members[i][1] = key
  THEN CHOOSE i \in 1 .. Len(members) : members[i][1] = key
  ELSE 0

\* x[key]
GetProp(x, key) ==
  IF x.t = "arr" /\ IsArrayIndex(key) /\ ParseInt(key) < Len(x.elems)
  THEN x.elems[ParseInt(key) + 1]
  ELSE IF x.t \in {"obj", "arr"} /\ MemberIndex(x.props, key) # 0
  THEN x.props[MemberIndex(x.props, key)][2]
  ELSE IF x.t = "str" /\ IsArrayIndex(key) /\ ParseInt(key) < Len(x.s)
  THEN Str(<<x.s[ParseInt(key) + 1]>>)
  ELSE Undef

\* An assignment that always defines a new member.
AppendMember(members, key, v) == Append(members, <<key, v>>)

SetMember(members, key, v) ==
  IF MemberIndex(members, key) # 0
  THEN [members EXCEPT ![MemberIndex(members, key)] = <<key, v>>]
  ELSE Append(members, <<key, v>>)

\* x[key] = v in strict mode (class bodies are strict): [ok, node].  An
\* object or array is updated in place; a primitive throws a TypeError.
SetProp(x, key, v) ==
  IF x.t = "obj"
  THEN [ok |-> TRUE, node |-> [x EXCEPT !.props = SetMember(x.props, key, v)]]
  ELSE IF x.t = "arr" /\ IsArrayIndex(key)
  THEN LET i == ParseInt(key)
           n == IF i < Len(x.elems) THEN Len(x.elems) ELSE i + 1
       IN [ok |-> TRUE,
           node |-> [x EXCEPT !.elems =
                       [j \in 1 .. n |->
                          IF j = i + 1 THEN v
                          ELSE IF j <= Len(x.elems) THEN x.elems[j]
                          ELSE Undef]]]
  ELSE IF x.t = "arr"
  THEN [ok |-> TRUE, node |-> [x EXCEPT !.props = SetMember(x.props, key, v)]]
  ELSE [ok |-> FALSE, node |-> x]

\* The keys among ks (in order) that are array indices, in ascending order.
RECURSIVE IndexKeysAscending(_)
IndexKeysAscending(ks) ==
  IF ks = <<>> THEN <<>>
  ELSE LET least == CHOOSE i \in 1 .. Len(ks) :
                      \A j \in 1 .. Len(ks) : ParseInt(ks[i]) <= ParseInt(ks[j])
       IN <<ks[least]>> \o
          IndexKeysAscending([j \in 1 .. Len(ks) - 1 |->
                                IF j < least THEN ks[j] ELSE ks[j + 1]])

\* Object.keys(x) of an object: array-index keys first, in ascending
\* numeric order, then the other keys in insertion order.
ObjectKeys(x) ==
  LET ks == [i \in 1 .. Len(x.props) |-> x.props[i][1]]
  IN IndexKeysAscending(SelectSeq(ks, IsArrayIndex))
       \o SelectSeq(ks, LAMBDA k : ~IsArrayIndex(k))

RECURSIVE Flatten(_)
Flatten(seqs) ==
  IF seqs = <<>> THEN <<>> ELSE Head(seqs) \o Flatten(Tail(seqs))

\* JSON.parse(JSON.stringify(x)): members in Object.keys order, holes and
\* undefined elements become null, undefined members and the named
\* properties of arrays are dropped.
RECURSIVE Clone(_)
Clone(x) ==
  IF x.t = "obj"
  THEN LET ks == SelectSeq(ObjectKeys(x), LAMBDA k : GetProp(x, k).t # "undef")
       IN Obj([i \in 1 .. Len(ks) |-> <<ks[i], Clone(GetProp(x, ks[i]))>>])
  ELSE IF x.t = "arr"
  THEN Arr([i \in 1 .. Len(x.elems) |->
              IF x.elems[i].t = "undef" THEN Null ELSE Clone(x.elems[i])])
  ELSE x

---------------------------------------------------------------------------
(* JSONProcessor *)

TranslatableUntrimmed(current) == current.t = "str" /\ current.s # <<>>

\* typeof current === 'string' && current.trim() !== ''
Translatable(current) == current.t = "str" /\ Trim(current.s) # <<>>

\* traverse(current, currentPath) of extractTranslatableKeys
RECURSIVE Traverse(_, _)
Traverse(current, currentPath) ==
  IF Translatable(current)
  THEN << [key |-> currentPath, value |-> current.s, path |-> currentPath] >>
  ELSE IF current.t = "obj"
  THEN LET ks == ObjectKeys(current)
       IN Flatten([i \in 1 .. Len(ks) |->
                     Traverse(GetProp(current, ks[i]),
                              IF currentPath # <<>>
                              THEN currentPath \o <<".">> \o ks[i]
                              ELSE ks[i])])
  ELSE IF current.t = "arr"
  THEN Flatten([i \in 1 .. Len(current.elems) |->
                  IF current.elems[i].t = "undef" THEN <<>>
                  ELSE Traverse(current.elems[i],
                                currentPath \o <<"[">> \o IntToString(i - 1)
                                  \o <<"]">>)])
  ELSE <<>>

ExtractTranslatableKeys(obj) == Traverse(obj, <<>>)

\* path.split('.')
RECURSIVE Split(_)
Split(path) ==
  IF \E i \in 1 .. Len(path) : path[i] = "."
  THEN LET d == CHOOSE i \in 1 .. Len(path) :
                  path[i] = "." /\ \A j \in 1 .. i - 1 : path[j] # "."
       IN <<SubSeq(path, 1, d - 1)>> \o Split(SubSeq(path, d + 1, Len(path)))
  ELSE <<path>>

\* key.match(/^(.+)\[(\d+)\]$/): where the "[" of the match is, or 0
BracketAt(key) ==
  IF /\ Len(key) >= 4
     /\ key[Len(key)] = "]"
     /\ \E b \in 2 .. Len(key) - 2 :
          /\ key[b] = "["
          /\ \A j \in b + 1 .. Len(key) - 1 : IsDigit(key[j])
  THEN CHOOSE b \in 2 .. Len(key) - 2 :
         /\ key[b] = "["
         /\ \A j \in b + 1 .. Len(key) - 1 : IsDigit(key[j])
  ELSE 0

ArrayKey(key) == SubSeq(key, 1, BracketAt(key) - 1)

ArrayIndex(key) ==
  IntToString(ParseInt(SubSeq(key, BracketAt(key) + 1, Len(key) - 1)))

\* if (!current[key]) current[key] = fresh: [ok, node], node being current
\* after it and ok FALSE when the assignment throws.
Ensure(current, key, fresh) ==
  IF Falsy(GetProp(current, key)) THEN SetProp(current, key, fresh)
  ELSE [ok |-> TRUE, node |-> current]

\* current as it is once the value it holds at key has become child by the
\* writes made below it (values are trees here, objects in the program).
Put(current, key, child) ==
  IF current.t \in {"obj", "arr"} THEN SetProp(current, key, child).node
  ELSE current

Rejoin(current, key, below) ==
  [ok |-> below.ok, node |-> Put(current, key, below.node)]

\* current[arrayKey][index] = value, made being current after Ensure
AssignIn(made, arrayKey, index, value) ==
  IF ~made.ok THEN made
  ELSE Rejoin(made.node, arrayKey,
              SetProp(GetProp(made.node, arrayKey), index, value))

\* The assignment at the last key (lines 100-115): [ok, node].
SetLast(current, lastKey, value) ==
  IF BracketAt(lastKey) # 0
  THEN AssignIn(Ensure(current, ArrayKey(lastKey), Arr(<<>>)),
                ArrayKey(lastKey), ArrayIndex(lastKey), value)
  ELSE SetProp(current, lastKey, value)

\* setNestedValue from keys[i] on, current being the node reached: [ok,
\* node], node being current after the writes made (a throw leaves the
\* containers created before it in place).  WalkInto goes on from
\* made.node[key], WalkArray from made.node[arrayKey][index].
RECURSIVE Walk(_, _, _, _), WalkInto(_, _, _, _, _)
WalkInto(made, key, pathKeys, i, value) ==
  IF ~made.ok THEN made
  ELSE Rejoin(made.node, key,
              Walk(GetProp(made.node, key), pathKeys, i + 1, value))

WalkArray(made, arrayKey, index, pathKeys, i, value) ==
  IF ~made.ok THEN made
  ELSE Rejoin(made.node, arrayKey,
              WalkInto(Ensure(GetProp(made.node, arrayKey), index, Obj(<<>>)),
                       index, pathKeys, i, value))

Walk(current, pathKeys, i, value) ==
  IF i = Len(pathKeys) THEN SetLast(current, pathKeys[i], value)
  ELSE IF BracketAt(pathKeys[i]) # 0
  THEN WalkArray(Ensure(current, ArrayKey(pathKeys[i]), Arr(<<>>)),
                 ArrayKey(pathKeys[i]), ArrayIndex(pathKeys[i]),
                 pathKeys, i, value)
  ELSE WalkInto(Ensure(current, pathKeys[i], Obj(<<>>)),
                pathKeys[i], pathKeys, i, value)

\* setNestedValue(obj, path, value): ok is FALSE when it throws.
SetNestedValue(obj, path, value) == Walk(obj, Split(path), 1, Str(value))

StopAtFailure(n, ok, total) == IF ok THEN n + 1 ELSE total + 1

\* The entry forEach visits after the n-th, whose assignment threw (~ok)
\* or did not: the inner catch swallows the throw.
NextEntry(n, ok, total) == n + 1

\* The forEach of applyTranslations over the entries from the n-th on.
RECURSIVE ApplyFrom(_, _, _, _)
ApplyFrom(json, errs, entries, n) ==
  IF n > Len(entries)
  THEN [translatedJSON |-> json, errors |-> errs]
  ELSE LET r == SetNestedValue(json, entries[n][1], entries[n][2])
       IN ApplyFrom(r.node,
                    IF r.ok THEN errs
                    ELSE Append(errs, [key |-> entries[n][1],
                                       error |-> "Failed to apply translation"]),
                    entries, NextEntry(n, r.ok, Len(entries)))

SameObject(x) == [json |-> x, sameObject |-> TRUE]

\* JSON.parse(JSON.stringify(x)): a value that shares no object with x
DeepCopy(x) == [json |-> Clone(x), sameObject |-> FALSE]

\* applyTranslations(originalJSON, translations), the Map given as its
\* entries <<keyPath, translatedValue>> in insertion order.  originalJSON
\* is the caller's value after the call: setNestedValue writes in place,
\* so what it writes shows in every value that is the same object.
ApplyTranslations(originalJSON, entries) ==
  LET copy == DeepCopy(originalJSON)
      r == ApplyFrom(copy.json, <<>>, entries, 1)
  IN [translatedJSON |-> r.translatedJSON,
      errors |-> r.errors,
      originalJSON |-> IF copy.sameObject THEN r.translatedJSON
                       ELSE originalJSON]

---------------------------------------------------------------------------
(* ParallelTranslator *)

\* Item i of an input list: id and key identify it, value is its source text.
Item(i, v) == [id |-> i, key |-> i, value |-> v]

ItemLists ==
  UNION { { [i \in 1 .. n |-> Item(i, f[i])] : f \in [1 .. n -> Values] }
          : n \in 0 .. MaxItems }

\* cache.get(cacheKey); source and target language are fixed during a run,
\* so the key varies with the source text only.
CacheGet(c, v) == IF v \in DOMAIN c THEN c[v] ELSE Undefined

CacheSet(c, v, t) == [x \in (DOMAIN c) \cup {v} |-> IF x = v THEN t ELSE c[x]]

\* A cache that keeps whatever a call returned
CacheAlways(c, v, r) == CacheSet(c, v, r.translatedValue)

\* if (result.success) this.cache.set(cacheKey, result.translatedValue)
CacheAfter(c, v, r) ==
  IF r.success THEN CacheSet(c, v, r.translatedValue) ELSE c

MinInterval == (60 * 1000) \div RequestsPerMinute

\* waitForRateLimit after its wait: record the dispatch time, trim the window.
RecordRequest(times, t) ==
  SelectSeq(Append(times, t), LAMBDA x : x > t - MinuteMs)

WorkerCount == Min(maxConcurrentRequests, Len(items))

\* A worker that takes an item without counting itself in flight.
AcquireUncounted(act) == act

Acquire(act) == act + 1

Release(act) == act - 1

IndexOfId(its, id) ==
  IF \E i \in 1 .. Len(its) : its[i].id = id
  THEN CHOOSE i \in 1 .. Len(its) :
         its[i].id = id /\ \A j \in 1 .. i - 1 : its[j].id # id
  ELSE -1

RECURSIVE InsertSorted(_, _, _)
InsertSorted(sorted, r, its) ==
  IF sorted = <<>> THEN <<r>>
  ELSE IF IndexOfId(its, sorted[Len(sorted)].id) <= IndexOfId(its, r.id)
       THEN Append(sorted, r)
       ELSE Append(InsertSorted(SubSeq(sorted, 1, Len(sorted) - 1), r, its),
                   sorted[Len(sorted)])

RECURSIVE SortedPrefix(_, _, _)
SortedPrefix(rs, n, its) ==
  IF n = 0 THEN <<>>
  ELSE InsertSorted(SortedPrefix(rs, n - 1, its), rs[n], its)

\* The results returned in completion order.
SortResultsOmitted(rs, its) == rs

\* results.sort((a, b) => aIndex - bIndex): a stable sort by input position.
SortResults(rs, its) == SortedPrefix(rs, Len(rs), its)

CachedResult(item, t) ==
  [id |-> item.id, key |-> item.key, success |-> TRUE,
   translatedValue |-> t, error |-> Undefined]

CancelledResult(item) ==
  [id |-> item.id, key |-> item.key, success |-> FALSE,
   translatedValue |-> "", error |-> "Translation cancelled"]

ThrownResult(item, msg) ==
  [id |-> item.id, key |-> item.key, success |-> FALSE,
   translatedValue |-> "", error |-> msg]

\* What translateKey resolves with: a translation, or a failure with a message.
BackendResults ==
  { [success |-> TRUE, translatedValue |-> t, error |-> Undefined]
      : t \in Translations }
  \cup { [success |-> FALSE, translatedValue |-> "", error |-> "API error"] }

\* A result that reports success whatever the backend returned.
ItemResultOptimistic(item, r) ==
  [id |-> item.id, key |-> item.key, success |-> TRUE,
   translatedValue |-> r.translatedValue, error |-> r.error]

ItemResult(item, r) ==
  [id |-> item.id, key |-> item.key, success |-> r.success,
   translatedValue |-> r.translatedValue, error |-> r.error]


NoResult ==
  [id |-> 0, key |-> 0, success |-> FALSE, translatedValue |-> "",
   error |-> Undefined]

\* calculateProgress: percentage = total > 0 ? (completed / total) * 100 : 0.
\* The model keeps the integer part of the percentage (x / x is exactly 1).
Percentage(completed, total) ==
  IF total > 0 THEN (completed * 100) \div total ELSE 0

CalculateProgress(completed, total) ==
  [completed |-> completed, total |-> total,
   percentage |-> Percentage(completed, total)]

\* onProgress(this.calculateProgress(this.completedCount, items.length)),
\* called when pushedResults is the array of outcomes; the record is kept
\* with the number of outcomes pushed when it was passed.
ProgressAfter(pushedResults) ==
  [record |-> CalculateProgress(completedCount', Len(items)),
   outcomes |-> Len(pushedResults)]

\* if (cached): undefined and the empty string are both falsy.
Truthy(t) == t # Undefined /\ t # ""

\* A worker that reads the head of the queue and leaves it there.
Peek(q) == q

\* this.requestQueue.shift(): the queue without the item taken
Shift(q) == Tail(q)

\* while (this.requestQueue.length > 0 && !this.cancelled)
LoopCondition(q, c) == q # <<>> /\ ~c

\* A processItem that does not look at the flag after its wait.
CancelIgnored(c) == FALSE

\* if (this.cancelled) after the rate-limit wait: the dispatch is abandoned.
CancelObserved(c) == c

\* TranslatorFactory.createTranslator throws for any other provider name.
Supported(p) == p \in {"openai", "anthropic"}

Starting == starting \in 1 .. WorkerCount

\* A continuation is queued as a microtask: it runs before any timer or
\* network callback.
MicrotaskPending == \E w \in Workers : pc[w] \in {"admitted", "result"}

TimerDue == \E w \in Workers : pc[w] \in {"ratewait", "poll"} /\ wake[w] <= now

historyVars == <<calls, failedItems, cancelCalled, callbackThrew, progress, pushed,
                 atCancel>>
configVars == <<items, provider, maxConcurrentRequests>>

\* processNext from the head of its while loop to its next await, entered
\* with activeRequests = act and cache = c: leave the loop, poll for a slot,
\* or take the next item and run processItem up to its first suspension.
LoopHead(w, act, c) ==
  IF ~LoopCondition(requestQueue, cancelled)
  THEN /\ pc' = [pc EXCEPT ![w] = "done"]
       /\ activeRequests' = act
       /\ UNCHANGED <<requestQueue, cur, wake, pend, lastRequestTime, requestTimes>>
  ELSE IF act >= maxConcurrentRequests
  THEN /\ pc' = [pc EXCEPT ![w] = "poll"]
       /\ wake' = [wake EXCEPT ![w] = now + PollMs]
       /\ activeRequests' = act
       /\ UNCHANGED <<requestQueue, cur, pend, lastRequestTime, requestTimes>>
  ELSE LET i == Head(requestQueue)
           cached == CacheGet(c, items[i].value)
           timeSinceLastRequest == now - lastRequestTime
       IN /\ requestQueue' = Shift(requestQueue)
          /\ activeRequests' = Acquire(act)
          /\ cur' = [cur EXCEPT ![w] = i]
          /\ IF Truthy(cached)
             THEN /\ pend' = [pend EXCEPT ![w] = CachedResult(items[i], cached)]
                  /\ pc' = [pc EXCEPT ![w] = "result"]
                  /\ UNCHANGED <<wake, lastRequestTime, requestTimes>>
             ELSE IF timeSinceLastRequest < MinInterval
             THEN /\ pc' = [pc EXCEPT ![w] = "ratewait"]
                  /\ wake' = [wake EXCEPT ![w] =
                                now + (MinInterval - timeSinceLastRequest)]
                  /\ UNCHANGED <<pend, lastRequestTime, requestTimes>>
             ELSE /\ lastRequestTime' = now
                  /\ requestTimes' = RecordRequest(requestTimes, now)
                  /\ pc' = [pc EXCEPT ![w] = "admitted"]
                  /\ UNCHANGED <<pend, wake>>

\* processItem after await waitForRateLimit(): give up if cancelled, else
\* create the translator (which throws for an unsupported provider, caught
\* by processItem) and start translateKey.
AfterRateLimit(w) ==
  IF CancelObserved(cancelled)
  THEN /\ pend' = [pend EXCEPT ![w] = CancelledResult(items[cur[w]])]
       /\ pc' = [pc EXCEPT ![w] = "result"]
       /\ UNCHANGED <<calls, failedItems>>
  ELSE IF ~Supported(provider)
  THEN /\ pend' = [pend EXCEPT ![w] =
                     ThrownResult(items[cur[w]], "Unsupported translation provider")]
       /\ pc' = [pc EXCEPT ![w] = "result"]
       /\ failedItems' = failedItems \cup {cur[w]}
       /\ UNCHANGED calls
  ELSE /\ calls' = Append(calls, [item |-> cur[w],
                                  value |-> items[cur[w]].value,
                                  t |-> now,
                                  afterCancel |-> cancelCalled])
       /\ pc' = [pc EXCEPT ![w] = "backend"]
       /\ UNCHANGED <<pend, failedItems>>

\* processNext after await processItem(item), which resolved with res: push
\* the result, count it, call the callbacks, release the slot in finally,
\* and go round the loop.  A callback that throws rejects this worker's
\* promise, and with it Promise.all.
AfterProcessItem(w, res, cb, c) ==
  /\ results' = Append(results, res)
  /\ pushed' = Append(pushed, res.id)
  /\ completedCount' = completedCount + 1
  /\ IF cb = "throw"
     THEN /\ activeRequests' = Release(activeRequests)
          /\ pc' = [pc EXCEPT ![w] = "rejected"]
          /\ promise' = IF promise = "pending" THEN "rejected" ELSE promise
          /\ callbackThrew' = TRUE
          /\ progress' \in {progress, Append(progress, ProgressAfter(results'))}
          /\ UNCHANGED <<requestQueue, cur, wake, pend, lastRequestTime,
                         requestTimes>>
     ELSE /\ LoopHead(w, Release(activeRequests), c)
          /\ progress' = Append(progress, ProgressAfter(results'))
          /\ UNCHANGED <<promise, callbackThrew>>

\* translateParallel up to its for loop: reset the run's fields.
TranslateParallel ==
  /\ UNCHANGED <<jsonVars, batchVars, mergeVars, keyVars, pageVars, parseVars>>
  /\ starting = 0
  /\ starting' = 1
  /\ completedCount' = 0
  /\ cancelled' = FALSE
  /\ requestQueue' = [i \in 1 .. Len(items) |-> i]
  /\ results' = <<>>
  /\ UNCHANGED <<configVars, activeRequests, cache, requestTimes,
                 lastRequestTime, pc, cur, wake, pend, promise, returned, now,
                 historyVars>>

\* for (i < workerCount) promises.push(processNext()): the next worker runs
\* synchronously to its first await.
StartWorker ==
  /\ UNCHANGED <<jsonVars, batchVars, mergeVars, keyVars, pageVars, parseVars>>
  /\ Starting
  /\ LoopHead(starting, activeRequests, cache)
  /\ starting' = starting + 1
  /\ UNCHANGED <<configVars, completedCount, cache, cancelled, results,
                 promise, returned, now, historyVars>>

\* A setTimeout fires.  In waitForRateLimit: lastRequestTime is written now,
\* after the wait, and processItem goes on to dispatch.  In the 50 ms poll
\* for a free slot: back to the head of the loop.
TimerFires(w) ==
  /\ UNCHANGED <<jsonVars, batchVars, mergeVars, keyVars, pageVars, parseVars>>
  /\ ~Starting /\ ~MicrotaskPending
  /\ pc[w] \in {"ratewait", "poll"} /\ wake[w] <= now
  /\ IF pc[w] = "ratewait"
     THEN /\ lastRequestTime' = now
          /\ requestTimes' = RecordRequest(requestTimes, now)
          /\ AfterRateLimit(w)
          /\ UNCHANGED <<requestQueue, activeRequests, cur, wake>>
     ELSE /\ LoopHead(w, activeRequests, cache)
          /\ UNCHANGED <<calls, failedItems>>
  /\ UNCHANGED <<configVars, completedCount, cache, cancelled, results,
                 starting, promise, returned, now, cancelCalled,
                 callbackThrew, progress, pushed, atCancel>>

\* A worker admitted without a wait resumes (a microtask).
Dispatch(w) ==
  /\ UNCHANGED <<jsonVars, batchVars, mergeVars, keyVars, pageVars, parseVars>>
  /\ ~Starting
  /\ pc[w] = "admitted"
  /\ AfterRateLimit(w)
  /\ UNCHANGED <<configVars, requestQueue, activeRequests, completedCount,
                 cache, requestTimes, lastRequestTime, cancelled, results,
                 starting, cur, wake, promise, returned, now, cancelCalled,
                 callbackThrew, progress, pushed, atCancel>>

\* translateKey resolves with r: processItem caches a success and builds
\* the item's result, and processNext goes on.  Translation texts are named
\* in the order in which they first come back for a source text.
BackendReturn(w, r, cb) ==
  /\ UNCHANGED <<jsonVars, batchVars, mergeVars, keyVars, pageVars, parseVars>>
  /\ ~Starting /\ ~MicrotaskPending
  /\ pc[w] = "backend"
  /\ (r.success /\ r.translatedValue # "T1")
       => items[cur[w]].value \in DOMAIN cache
  /\ cache' = CacheAfter(cache, items[cur[w]].value, r)
  /\ failedItems' = IF r.success THEN failedItems ELSE failedItems \cup {cur[w]}
  /\ AfterProcessItem(w, ItemResult(items[cur[w]], r), cb, cache')
  /\ UNCHANGED <<configVars, cancelled, starting, returned, now, calls,
                 cancelCalled, atCancel>>

\* A worker whose processItem resolved without a backend call (cache hit,
\* cancelled, or createTranslator threw) resumes (a microtask).
Complete(w, cb) ==
  /\ UNCHANGED <<jsonVars, batchVars, mergeVars, keyVars, pageVars, parseVars>>
  /\ ~Starting
  /\ pc[w] = "result"
  /\ AfterProcessItem(w, pend[w], cb, cache)
  /\ UNCHANGED <<configVars, cache, cancelled, starting, returned, now,
                 calls, failedItems, cancelCalled, atCancel>>

\* await Promise.all(promises) is fulfilled: sort and return the results.
Resolve ==
  /\ UNCHANGED <<jsonVars, batchVars, mergeVars, keyVars, pageVars, parseVars>>
  /\ starting > WorkerCount
  /\ promise = "pending"
  /\ \A w \in 1 .. WorkerCount : pc[w] = "done"
  /\ results' = SortResults(results, items)
  /\ returned' = results'
  /\ promise' = "resolved"
  /\ UNCHANGED <<configVars, requestQueue, activeRequests, completedCount,
                 cache, requestTimes, lastRequestTime, cancelled, starting,
                 pc, cur, wake, pend, now, historyVars>>

\* cancel(), called by the owner of the translator while the run is pending.
Cancel ==
  /\ UNCHANGED <<jsonVars, batchVars, mergeVars, keyVars, pageVars, parseVars>>
  /\ starting > 0 /\ ~Starting
  /\ promise = "pending"
  /\ ~cancelled
  /\ cancelled' = TRUE
  /\ cancelCalled' = TRUE
  /\ atCancel' = pc
  /\ UNCHANGED <<configVars, requestQueue, activeRequests, completedCount,
                 cache, requestTimes, lastRequestTime, results, starting, pc,
                 cur, wake, pend, promise, returned, now, calls, failedItems,
                 callbackThrew, progress, pushed>>

\* Time passes while nothing is runnable.
Tick ==
  /\ UNCHANGED <<jsonVars, batchVars, mergeVars, keyVars, pageVars, parseVars>>
  /\ starting > 0 /\ ~Starting /\ ~MicrotaskPending /\ ~TimerDue
  /\ now < Horizon
  /\ \E w \in Workers : pc[w] \in {"ratewait", "poll", "backend"}
  /\ now' = now + TickMs
  /\ UNCHANGED <<configVars, requestQueue, activeRequests, completedCount,
                 cache, requestTimes, lastRequestTime, cancelled, results,
                 starting, pc, cur, wake, pend, promise, returned, historyVars>>

\* The fields of a ParallelTranslator after its constructor, before any call
Constructed ==
  /\ requestQueue = <<>>
  /\ activeRequests = 0
  /\ completedCount = 0
  /\ cache = <<>>
  /\ requestTimes = <<>>
  /\ lastRequestTime = 0
  /\ cancelled = FALSE
  /\ results = <<>>
  /\ starting = 0
  /\ pc = [w \in Workers |-> "init"]
  /\ cur = [w \in Workers |-> 0]
  /\ wake = [w \in Workers |-> 0]
  /\ pend = [w \in Workers |-> NoResult]
  /\ promise = "pending"
  /\ returned = <<>>
  /\ now = StartNow
  /\ calls = <<>>
  /\ failedItems = {}
  /\ cancelCalled = FALSE
  /\ callbackThrew = FALSE
  /\ progress = <<>>
  /\ pushed = <<>>
  /\ atCancel = [w \in Workers |-> "init"]

\* No document has been given to JSONProcessor.
NoDocument ==
  /\ source = Null
  /\ extracted = <<>>
  /\ translationMap = <<>>
  /\ translated = Null
  /\ applyErrors = <<>>
  /\ progressItems = <<>>
  /\ produced = FALSE
  /\ step = "idle"
  /\ NoRetry

\* The processNextBatch calls of a run: each shifts one batch, and there
\* are no more batches than items.
BatchCalls == {1, 2, 3, 4}

\* The locals of translateBatch before it is called.
NotCalled ==
  /\ batches = <<>>
  /\ allResults = <<>>
  /\ launched = 0
  /\ held = [k \in BatchCalls |-> <<>>]
  /\ batchPc = [k \in BatchCalls |-> "init"]
  /\ batchWake = [k \in BatchCalls |-> 0]
  /\ uncachedItems = [k \in BatchCalls |-> <<>>]
  /\ batchResults = [k \in BatchCalls |-> <<>>]
  /\ fallbackAt = [k \in BatchCalls |-> 0]
  /\ microtasks = <<>>
  /\ mainPc = "init"
  /\ mainWake = 0
  /\ initialBatches = 0
  /\ initialPromises = {}
  /\ batchFailed = {}
  /\ parseFailed = {}

---------------------------------------------------------------------------
(* Translator.translateKey of the two backends (openai-translator.ts 15-82, *)
(* anthropic-translator.ts 15-81).  Texts are sequences of characters.     *)

\* getProvider().models of OpenAITranslator
OpenAIModels ==
  {<<"g", "p", "t", "-", "4", "o">>,
   <<"g", "p", "t", "-", "4", "o", "-", "m", "i", "n", "i">>,
   <<"g", "p", "t", "-", "4", "-", "t", "u", "r", "b", "o">>,
   <<"g", "p", "t", "-", "4">>,
   <<"g", "p", "t", "-", "3", ".", "5", "-", "t", "u", "r", "b", "o">>,
   <<"o", "1">>,
   <<"o", "1", "-", "m", "i", "n", "i">>,
   <<"o", "3", "-", "m", "i", "n", "i">>}

\* getProvider().models of AnthropicTranslator
AnthropicModels ==
  {<<"c", "l", "a", "u", "d", "e", "-", "3", "-", "5", "-", "s", "o", "n",
     "n", "e", "t", "-", "2", "0", "2", "4", "1", "0", "2", "2">>,
   <<"c", "l", "a", "u", "d", "e", "-", "3", "-", "5", "-", "s", "o", "n",
     "n", "e", "t", "-", "2", "0", "2", "4", "0", "6", "2", "0">>,
   <<"c", "l", "a", "u", "d", "e", "-", "3", "-", "5", "-", "h", "a", "i",
     "k", "u", "-", "2", "0", "2", "4", "1", "0", "2", "2">>,
   <<"c", "l", "a", "u", "d", "e", "-", "3", "-", "o", "p", "u", "s", "-",
     "2", "0", "2", "4", "0", "2", "2", "9">>,
   <<"c", "l", "a", "u", "d", "e", "-", "3", "-", "s", "o", "n", "n", "e",
     "t", "-", "2", "0", "2", "4", "0", "2", "2", "9">>,
   <<"c", "l", "a", "u", "d", "e", "-", "3", "-", "h", "a", "i", "k", "u",
     "-", "2", "0", "2", "4", "0", "3", "0", "7">>}

\* The translator classes TranslatorFactory.createTranslator chooses from
Backends == {"openai", "anthropic"}

ModelsOf(backend) ==
  IF backend = "openai" THEN OpenAIModels ELSE AnthropicModels

\* The configurations explored: each field empty, blank or filled in, the
\* model one of either backend's list or unknown to both
ApiKeys == {<<>>, <<" ">>, <<"s", "k">>}
TargetLanguages == {<<>>, <<" ">>, <<"e", "s">>}
ConfigModels ==
  {<<>>, <<" ">>, <<"o", "1">>, <<"g", "p", "t", "-", "4">>, <<"g", "p", "t">>,
   <<"c", "l", "a", "u", "d", "e", "-", "3", "-", "o", "p", "u", "s", "-",
     "2", "0", "2", "4", "0", "2", "2", "9">>}

Configs ==
  [provider : Backends, apiKey : ApiKeys, targetLanguage : TargetLanguages,
   model : ConfigModels]

\* !text || text.trim() === ""
Blank(text) == text = <<>> \/ Trim(text) = <<>>

\* validateConfig()
ValidateConfig(config) ==
  /\ ~Blank(config.apiKey)
  /\ ~Blank(config.targetLanguage)
  /\ ~Blank(config.model)
  /\ config.model \in ModelsOf(config.provider)

\* x?.[key] : undefined when x is null or undefined
Chain(x, key) == IF x.t \in {"undef", "null"} THEN Undef ELSE GetProp(x, key)

\* The property path each backend reads the translation from
ContentPath(backend) ==
  IF backend = "openai"
  THEN <<(<<"c", "h", "o", "i", "c", "e", "s">>), (<<"0">>),
         (<<"m", "e", "s", "s", "a", "g", "e">>),
         (<<"c", "o", "n", "t", "e", "n", "t">>)>>
  ELSE <<(<<"c", "o", "n", "t", "e", "n", "t">>), (<<"0">>),
         (<<"t", "e", "x", "t">>)>>

\* leaf wrapped in objects and one-element arrays along the path
RECURSIVE Wrap(_, _)
Wrap(path, leaf) ==
  IF path = <<>> THEN leaf
  ELSE IF IsArrayIndex(Head(path)) THEN Arr(<<Wrap(Tail(path), leaf)>>)
  ELSE Obj(<< <<Head(path), Wrap(Tail(path), leaf)>> >>)

\* What may stand where the translation is expected
BodyLeaves ==
  {Str(<<>>), Str(<<" ">>), Str(<<"H", "o", "l", "a">>),
   Str(<<" ", "H", "o", "l", "a", " ">>), Num(<<"7">>), Num(<<"0">>),
   Bool(<<"f", "a", "l", "s", "e">>), Null, Obj(<<>>), Arr(<<>>)}

\* {"error": {"message": "bad"}}
ErrorBody ==
  Obj(<< <<(<<"e", "r", "r", "o", "r">>),
           Obj(<< <<(<<"m", "e", "s", "s", "a", "g", "e">>),
                    Str(<<"b", "a", "d">>)>> >>)>> >>)

\* The JSON values a response body may parse to: each leaf at every depth
\* of either backend's path, and an error object
Bodies ==
  {ErrorBody} \cup
  UNION { { Wrap(SubSeq(ContentPath(b), 1, k), leaf) : leaf \in BodyLeaves }
          : <<b, k>> \in { <<"openai", 0>>, <<"openai", 1>>, <<"openai", 2>>,
                            <<"openai", 3>>, <<"openai", 4>>,
                            <<"anthropic", 1>>, <<"anthropic", 2>>,
                            <<"anthropic", 3>> } }

\* A body that is not JSON: response.json() rejects.
NotJSON == [t |-> "notjson", s |-> <<>>, elems |-> <<>>, props |-> <<>>]

\* fetch rejected (network error): there is no response.
NetworkError == [ok |-> FALSE, body |-> Undef, failed |-> TRUE]
NoResponse == [ok |-> FALSE, body |-> Undef, failed |-> FALSE]

\* What fetch may settle with
Responses ==
  {NetworkError} \cup
  [ok : BOOLEAN, body : Bodies \cup {NotJSON}, failed : {FALSE}]

\* A TranslationResult
FailureResult(message) ==
  [success |-> FALSE, translatedValue |-> <<>>, error |-> message]
SuccessResult(text) ==
  [success |-> TRUE, translatedValue |-> text, error |-> Undefined]
NoKeyResult == [success |-> FALSE, translatedValue |-> <<>>, error |-> "none"]

\* An exception that leaves translateKey.
Uncaught(message) == [threw |-> TRUE, result |-> NoKeyResult]

\* catch (error) { return { success: false, translatedValue: "", error } }
Caught(message) == [threw |-> FALSE, result |-> FailureResult(message)]

Returns(result) == [threw |-> FALSE, result |-> result]

\* data.choices?.[0]?.message?.content?.trim() and what follows it.
\* data.choices of null throws a TypeError, and so does .trim() of a
\* value that is not a string.
RECURSIVE Follow(_, _)
Follow(x, path) ==
  IF path = <<>> THEN x ELSE Follow(Chain(x, Head(path)), Tail(path))

ReadTranslation(backend, data) ==
  LET path == ContentPath(backend)
      content == Follow(GetProp(data, Head(path)), Tail(path))
      translatedValue ==
        IF content.t = "str" THEN Str(Trim(content.s)) ELSE content
  IN IF data.t \in {"null", "undef"}
     THEN Caught("Translation failed")
     ELSE IF content.t \notin {"undef", "null", "str"}
     THEN Caught("Translation failed")
     ELSE IF Falsy(translatedValue)
     THEN Returns(FailureResult("No translation received"))
     ELSE Returns(SuccessResult(translatedValue.s))

\* !response.ok: errorData = await response.json().catch(() => ({})), and
\* errorData.error?.message is read (a TypeError when errorData is null).
ReadError(errorData) ==
  IF errorData.t \in {"null", "undef"}
  THEN Caught("Translation failed")
  ELSE Returns(FailureResult("API error"))

\* No translateKey call is being followed.
NoKeyCall ==
  /\ keyConfig = [provider |-> "openai", apiKey |-> <<>>,
                  targetLanguage |-> <<>>, model |-> <<>>]
  /\ keyPc = "idle"
  /\ response = NoResponse
  /\ keyResult = NoKeyResult
  /\ fetches = 0


---------------------------------------------------------------------------
(* Initial states *)

\* The text of the source editor: blank, not JSON, or the text of a value.
BlankText == [kind |-> "blank", value |-> Undef]
MalformedText == [kind |-> "malformed", value |-> Undef]
TextOf(x) == [kind |-> "json", value |-> x]

\* What validateForTranslation gives: keyCount -1 when it is left out, and
\* threw when the call ended in an exception instead
NoValidation ==
  [valid |-> FALSE, error |-> "none", keyCount |-> -1, threw |-> FALSE]

\* setValidation({ valid: true }) of the editor for a blank text
BlankValidation ==
  [valid |-> TRUE, error |-> "none", keyCount |-> -1, threw |-> FALSE]

\* JSON.parse threw and nothing caught it.
ParseRethrown(message) ==
  [valid |-> FALSE, error |-> "none", keyCount |-> -1, threw |-> TRUE]

\* validateJSON, catch: { valid: false, error: error.message }
ParseFailed(message) ==
  [valid |-> FALSE, error |-> message, keyCount |-> -1, threw |-> FALSE]

\* validateJSON: JSON.parse throws for a text that is blank or not JSON.
ValidateJSON(text) ==
  IF text.kind = "json"
  THEN [valid |-> TRUE, error |-> "none", keyCount |-> -1, threw |-> FALSE]
  ELSE ParseFailed("SyntaxError")

\* The page as it is first rendered (part_006 58-81)
NoPage ==
  /\ originalJSONText = BlankText
  /\ validation = NoValidation
  /\ isConfigured = FALSE
  /\ useOptimizedTranslation = TRUE
  /\ isTranslating = FALSE
  /\ isPaused = FALSE
  /\ currentIndex = 0
  /\ translationInProgress = FALSE
  /\ loops = <<>>
  /\ halted = {}
  /\ doneAtResume = {}

\* No BatchTranslator is in use.
NoBatchRun == maxBatchSize = 1 /\ NotCalled

\* parseBatchResponse has not been called.
NotParsing ==
  /\ batchResponse = <<>>
  /\ parsedLines = <<>>
  /\ parsePc = "init"

\* retryFailed has not been called.
NoRetryFailed ==
  /\ previousResults = <<>>
  /\ originalItems = <<>>
  /\ retryPc = "init"
  /\ updatedResults = <<>>

Init ==
  /\ items \in ItemLists
  /\ provider \in Providers
  /\ maxConcurrentRequests \in ConcurrencyLevels
  /\ Constructed
  /\ NoDocument
  /\ NoBatchRun
  /\ NoRetryFailed
  /\ NoKeyCall
  /\ NoPage
  /\ NotParsing

Next ==
  \/ TranslateParallel
  \/ StartWorker
  \/ \E w \in Workers : TimerFires(w)
  \/ \E w \in Workers : Dispatch(w)
  \/ \E w \in Workers, r \in BackendResults, cb \in {"return", "throw"} :
       BackendReturn(w, r, cb)
  \/ \E w \in Workers, cb \in {"return", "throw"} : Complete(w, cb)
  \/ Resolve
  \/ Cancel
  \/ Tick

Spec == Init /\ [][Next]_vars

---------------------------------------------------------------------------
(* Properties of translateParallel *)

Resolved == promise = "resolved"

Outstanding == Cardinality({w \in Workers : pc[w] = "backend"})

CallsFor(v) == {k \in 1 .. Len(calls) : calls[k].value = v}

\* C1: when translateParallel resolves and cancel() was not called, the
\* returned array has the length of the input and its i-th entry carries
\* the id and key of the i-th item, whatever the completion order.
C1_InputOrder ==
  (Resolved /\ ~cancelCalled) =>
    /\ Len(returned) = Len(items)
    /\ \A i \in 1 .. Len(items) :
         returned[i].id = items[i].id /\ returned[i].key = items[i].key

\* A run of three items resolved, without cancel, whose results were pushed
\* in another order than the input order.
C1_Witness ==
  /\ Resolved /\ ~cancelCalled
  /\ Len(items) = 3 /\ Len(pushed) = 3
  /\ pushed # <<1, 2, 3>>

\* C2: backend failures stay per item.  Without cancel the promise is not
\* rejected unless a caller's callback threw, and when it resolves there
\* are exactly N outcomes: the items whose backend call failed or threw are
\* failed and carry an error message, all the others succeeded.
C2_PartialFailure ==
  /\ (~cancelCalled /\ ~callbackThrew) => promise # "rejected"
  /\ (Resolved /\ ~cancelCalled) =>
       /\ Len(returned) = Len(items)
       /\ \A i \in 1 .. Len(returned) :
            /\ returned[i].success = (returned[i].id \notin failedItems)
            /\ ~returned[i].success =>
                 returned[i].error \notin {Undefined, ""}
       /\ Cardinality({i \in 1 .. Len(returned) : ~returned[i].success})
            = Cardinality(failedItems)

\* Three items, the first one failed at the backend, and the two after it
\* were still translated.
C2_Witness ==
  /\ Resolved /\ ~cancelCalled /\ Len(items) = 3
  /\ failedItems = {1}
  /\ Len(calls) >= 2
  /\ ~returned[1].success /\ returned[2].success /\ returned[3].success

\* C3: the in-flight count never exceeds maxConcurrentRequests, and every
\* outstanding backend call is counted in it.
C3_ConcurrencyBound ==
  /\ activeRequests <= maxConcurrentRequests
  /\ Outstanding <= activeRequests
  /\ Outstanding <= maxConcurrentRequests

\* Both slots of a run with maxConcurrentRequests = 2 hold a backend call.
C3_Witness ==
  /\ maxConcurrentRequests = 2
  /\ activeRequests = 2
  /\ Outstanding = 2

\* C4: two consecutive backend dispatches are at least
\* 60000 / requestsPerMinute milliseconds apart.
C4_MinimumGap ==
  \A k \in 2 .. Len(calls) : calls[k].t - calls[k - 1].t >= MinInterval

\* C5: the dispatches in the 60 seconds up to any dispatch number at most
\* requestsPerMinute.
C5_WindowBound ==
  \A k \in 1 .. Len(calls) :
    Cardinality({j \in 1 .. k : calls[j].t > calls[k].t - MinuteMs})
      <= RequestsPerMinute

\* C6: in a run in which no backend call fails, the backend is called at
\* most once for a source text, however many items share it.
C6_OneCallPerText ==
  failedItems = {} => \A v \in Values : Cardinality(CallsFor(v)) <= 1

\* C7: a cancelled run resolves with one outcome per input item, the items
\* still in the queue (never dispatched) being failed with the cancellation
\* error.
C7_CancelledOutcomes ==
  (Resolved /\ cancelCalled) =>
    /\ Len(returned) = Len(items)
    /\ \A q \in 1 .. Len(requestQueue) :
         \E j \in 1 .. Len(returned) :
           /\ returned[j].id = items[requestQueue[q]].id
           /\ ~returned[j].success
           /\ returned[j].error = "Translation cancelled"

\* C8: no backend call starts after cancel(), and when the run resolves
\* every call that was started has its own outcome (not a cancellation) in
\* the returned array.
C8_NoDispatchAfterCancel ==
  /\ \A k \in 1 .. Len(calls) : ~calls[k].afterCancel
  /\ Resolved =>
       \A k \in 1 .. Len(calls) :
         \E j \in 1 .. Len(returned) :
           /\ returned[j].id = items[calls[k].item].id
           /\ returned[j].error # "Translation cancelled"

\* cancel() came while one worker had a call in flight and the other was in
\* the rate-limit wait; the run resolved with the call's translation and
\* without a call for the waiting worker's item.
C8_Witness ==
  /\ Resolved /\ cancelCalled
  /\ \E w \in Workers : atCancel[w] = "backend"
  /\ \E w \in Workers : atCancel[w] = "ratewait"
  /\ Len(calls) = 1
  /\ \E j \in 1 .. Len(returned) :
       returned[j].id = items[calls[1].item].id /\ returned[j].success
  /\ \E j \in 1 .. Len(returned) : returned[j].error = "Translation cancelled"

\* C22: a run over at least one item with an unsupported provider name
\* does not resolve (it rejects instead of returning failed outcomes), and
\* a run rejects only for that or for a caller callback that threw, never
\* for the failure of an item's backend call.
C22_UnsupportedProviderRejects ==
  /\ (~Supported(provider) /\ items # <<>>) => promise # "resolved"
  /\ promise = "rejected" => (~Supported(provider) \/ callbackThrew)

---------------------------------------------------------------------------
(* JSONProcessor: the documents explored and the calls made on them *)

Keys == {<<"a">>, <<"0">>, <<>>, <<"a", ".", "a">>}

Leaves == {Str(<<"H", "i">>), Str(<<" ">>), Num(<<"7">>),
           Bool(<<"f", "a", "l", "s", "e">>), Null}

\* {"a": "Hello", "b": {"c": "World"}, "d": ["x", ""]}
ExampleDocument ==
  Obj(<< <<(<<"a">>), Str(<<"H", "e", "l", "l", "o">>)>>,
         <<(<<"b">>), Obj(<< <<(<<"c">>), Str(<<"W", "o", "r", "l", "d">>)>> >>)>>,
         <<(<<"d">>), Arr(<<Str(<<"x">>), Str(<<>>)>>)>> >>)

\* {"a": [["Hi"]]}
NestedArrayDocument ==
  Obj(<< <<(<<"a">>), Arr(<<Arr(<<Str(<<"H", "i">>)>>)>>)>> >>)

\* {"a.a": "Hi", "a": {"a": "Yo"}}
DottedKeyDocument ==
  Obj(<< <<(<<"a", ".", "a">>), Str(<<"H", "i">>)>>,
         <<(<<"a">>), Obj(<< <<(<<"a">>), Str(<<"Y", "o">>)>> >>)>> >>)

\* {"": {"": "Hi", "a": "Yo"}}
EmptyKeyDocument ==
  Obj(<< <<(<<>>), Obj(<< <<(<<>>), Str(<<"H", "i">>)>>,
                          <<(<<"a">>), Str(<<"Y", "o">>)>> >>)>> >>)

\* The sequences of k distinct keys
KeySeqs(k) ==
  {ks \in [1 .. k -> Keys] : \A i, j \in 1 .. k : ks[i] = ks[j] => i = j}

\* DocumentsOfSize(n): the documents of n nodes; Forests(k, m): the
\* sequences of k documents of m nodes in all.
RECURSIVE DocumentsOfSize(_), Forests(_, _)
Forests(k, m) ==
  IF k = 0 THEN (IF m = 0 THEN {<<>>} ELSE {})
  ELSE UNION { { <<d>> \o f : d \in DocumentsOfSize(n), f \in Forests(k - 1, m - n) }
               : n \in 1 .. m - k + 1 }

DocumentsOfSize(n) ==
  (IF n = 1 THEN Leaves ELSE {})
    \cup UNION { { Arr(f) : f \in Forests(k, n - 1) } : k \in 0 .. n - 1 }
    \cup UNION { { Obj([i \in 1 .. k |-> <<ks[i], f[i]>>])
                   : ks \in KeySeqs(k), f \in Forests(k, n - 1) }
                 : k \in 0 .. n - 1 }

\* What JSON.parse can hand to JSONProcessor: x is one of the documents
\* named above or a document of MaxNodes nodes at most.
Parsed(x) ==
  \/ x \in Leaves \cup {ExampleDocument, NestedArrayDocument, DottedKeyDocument,
                   EmptyKeyDocument}
  \/ \E k \in 0 .. MaxNodes - 1, m \in 0 .. MaxNodes - 1 :
       \E f \in Forests(k, m) :
         \/ x = Arr(f)
         \/ \E ks \in KeySeqs(k) : x = Obj([i \in 1 .. k |-> <<ks[i], f[i]>>])

\* A translation the backend may give for a text
TranslationOf(value) == <<"T">> \o value

\* Map.prototype.set: a key already there keeps its place.
MapSet(entries, key, value) == SetMember(entries, key, value)

\* The Map holding, for every extracted entry, its path and a text
RECURSIVE MapOf(_, _)
MapOf(entries, translate) ==
  IF entries = <<>> THEN <<>>
  ELSE LET last == entries[Len(entries)]
       IN MapSet(MapOf(SubSeq(entries, 1, Len(entries) - 1), translate),
                 last.key,
                 IF translate THEN TranslationOf(last.value) ELSE last.value)

\* The progress items the page makes of the extracted entries
PendingItems(entries) ==
  [i \in 1 .. Len(entries) |->
     [key |-> entries[i].key, status |-> "pending",
      originalValue |-> entries[i].value, translatedValue |-> <<>>]]

\* The page's effect on a new source document: parse, extract, make items.
Extract ==
  /\ step = "parsed"
  /\ extracted' = ExtractTranslatableKeys(source)
  /\ progressItems' = PendingItems(extracted')
  /\ step' = "extracted"
  /\ UNCHANGED <<source, translationMap, translated, applyErrors, produced>>
  /\ UNCHANGED <<parVars, batchVars, retryVars, mergeVars, keyVars, pageVars, parseVars>>

\* JSONProcessor.applyTranslations called with every extracted path and its
\* original value or a translation of it
Apply(translate) ==
  /\ step = "extracted"
  /\ progressItems = PendingItems(extracted)
  /\ translationMap' = MapOf(extracted, translate)
  /\ LET r == ApplyTranslations(source, translationMap')
     IN /\ translated' = r.translatedJSON
        /\ applyErrors' = r.errors
        /\ source' = r.originalJSON
  /\ step' = "applied"
  /\ UNCHANGED <<extracted, progressItems, produced>>
  /\ UNCHANGED <<parVars, batchVars, retryVars, mergeVars, keyVars, pageVars, parseVars>>

\* The page's onItemComplete for the result of item i: every progress item
\* with the result's key is updated.
ItemComplete(i, success) ==
  /\ step = "extracted"
  /\ i \in 1 .. Len(progressItems)
  /\ progressItems' =
       [j \in 1 .. Len(progressItems) |->
          IF progressItems[j].key = progressItems[i].key
          THEN [progressItems[j] EXCEPT
                  !.status = IF success THEN "completed" ELSE "error",
                  !.translatedValue =
                     IF success THEN TranslationOf(progressItems[i].originalValue)
                     ELSE <<>>]
          ELSE progressItems[j]]
  /\ progressItems' # progressItems
  /\ UNCHANGED <<source, extracted, translationMap, translated, applyErrors,
                 produced, step>>
  /\ UNCHANGED <<parVars, batchVars, retryVars, mergeVars, keyVars, pageVars, parseVars>>

\* item.status === "completed" && item.translatedValue
Applicable(item) == item.status = "completed" /\ item.translatedValue # <<>>

\* The Map generateTranslatedJSONWithItems fills from the items
RECURSIVE CompletedTranslations(_)
CompletedTranslations(its) ==
  IF its = <<>> THEN <<>>
  ELSE LET last == its[Len(its)]
           before == CompletedTranslations(SubSeq(its, 1, Len(its) - 1))
       IN IF Applicable(last)
          THEN MapSet(before, last.key, last.translatedValue)
          ELSE before

\* generateTranslatedJSONWithItems(state.progressItems)
Generate ==
  /\ step = "extracted"
  /\ translationMap' = CompletedTranslations(progressItems)
  /\ IF translationMap' = <<>>
     THEN UNCHANGED <<translated, applyErrors, produced>>
     ELSE LET r == ApplyTranslations(source, translationMap')
          IN /\ translated' = r.translatedJSON
             /\ applyErrors' = r.errors
             /\ produced' = TRUE
  /\ step' = "generated"
  /\ UNCHANGED <<source, extracted, progressItems>>
  /\ UNCHANGED <<parVars, batchVars, retryVars, mergeVars, keyVars, pageVars, parseVars>>

\* The failed items of state.progressItems, as positions
FailedEntries(its) ==
  SelectSeq([e \in 1 .. Len(its) |-> e], LAMBDA e : its[e].status = "error")

\* failedItems.map((item, index) => ({ id: `retry_${index}`, key, value }))
RetryItems(its) ==
  [j \in 1 .. Len(FailedEntries(its)) |->
     [id |-> j - 1, key |-> its[FailedEntries(its)[j]].key,
      value |-> its[FailedEntries(its)[j]].originalValue]]

\* The item complete callback of handleRetryFailed: prev.progressItems.map
UpdatedItems(its, key, success, translatedValue) ==
  [e \in 1 .. Len(its) |->
     IF key = its[e].key
     THEN [its[e] EXCEPT
             !.status = IF success THEN "completed" ELSE "error",
             !.translatedValue = IF success THEN translatedValue ELSE <<>>]
     ELSE its[e]]

\* handleRetryFailed up to translateParallel(retryItems): it returns at
\* once when no item is failed.
HandleRetryFailed ==
  /\ step = "extracted"
  /\ retryItems' = RetryItems(progressItems)
  /\ retryLeft' = 1 .. Len(retryItems')
  /\ beforeRetry' = progressItems
  /\ retryOf' = FailedEntries(progressItems)
  /\ retryOutcome' = [j \in 1 .. Len(retryItems') |-> FALSE]
  /\ step' = IF retryItems' = <<>> THEN "retried" ELSE "retrying"
  /\ UNCHANGED <<source, extracted, translationMap, translated, applyErrors,
                 progressItems, produced>>
  /\ UNCHANGED <<parVars, batchVars, mergeVars, keyVars, pageVars, parseVars>>

\* translateParallel reports the result of retry item j; after the last
\* one handleRetryFailed is over.
RetryItemComplete(j, success) ==
  /\ step = "retrying"
  /\ j \in retryLeft
  /\ progressItems' = UpdatedItems(progressItems, retryItems[j].key, success,
                                   TranslationOf(retryItems[j].value))
  /\ retryOutcome' = [retryOutcome EXCEPT ![j] = success]
  /\ retryLeft' = retryLeft \ {j}
  /\ step' = IF retryLeft' = {} THEN "retried" ELSE step
  /\ UNCHANGED <<source, extracted, translationMap, translated, applyErrors,
                 produced, retryItems, beforeRetry, retryOf>>
  /\ UNCHANGED <<parVars, batchVars, mergeVars, keyVars, pageVars, parseVars>>

InitJSON ==
  /\ items = <<>>
  /\ provider = "openai"
  /\ maxConcurrentRequests = 1
  /\ Constructed
  /\ Parsed(source)
  /\ extracted = <<>>
  /\ translationMap = <<>>
  /\ translated = Null
  /\ applyErrors = <<>>
  /\ progressItems = <<>>
  /\ produced = FALSE
  /\ step = "parsed"
  /\ NoRetry
  /\ NoBatchRun
  /\ NoRetryFailed
  /\ NoKeyCall
  /\ NoPage
  /\ NotParsing

NextJSON ==
  \/ Extract
  \/ \E translate \in BOOLEAN : Apply(translate)
  \/ \E i \in 1 .. Len(progressItems), success \in BOOLEAN :
       ItemComplete(i, success)
  \/ Generate
  \/ HandleRetryFailed
  \/ \E j \in retryLeft, success \in BOOLEAN : RetryItemComplete(j, success)

SpecJSON == InitJSON /\ [][NextJSON]_vars

---------------------------------------------------------------------------
(* Properties of JSONProcessor *)

\* A position in a document: the steps from the root to a node.
KeyStep(k) == [kind |-> "key", key |-> k, index |-> 0]
IndexStep(i) == [kind |-> "index", key |-> <<>>, index |-> i]

RECURSIVE Positions(_)
Positions(x) ==
  {<<>>} \cup
  (IF x.t = "obj"
   THEN UNION { { <<KeyStep(x.props[i][1])>> \o p : p \in Positions(x.props[i][2]) }
                : i \in 1 .. Len(x.props) }
   ELSE IF x.t = "arr"
   THEN UNION { { <<IndexStep(i - 1)>> \o p : p \in Positions(x.elems[i]) }
                : i \in 1 .. Len(x.elems) }
   ELSE {})

RECURSIVE NodeAt(_, _)
NodeAt(x, p) ==
  IF p = <<>> THEN x
  ELSE IF Head(p).kind = "key"
  THEN NodeAt(x.props[MemberIndex(x.props, Head(p).key)][2], Tail(p))
  ELSE NodeAt(x.elems[Head(p).index + 1], Tail(p))

\* The string leaves with something other than whitespace in them
StringLeaves(x) ==
  {p \in Positions(x) :
     /\ NodeAt(x, p).t = "str"
     /\ \E i \in 1 .. Len(NodeAt(x, p).s) : NodeAt(x, p).s[i] # " "}

\* The path of the first n steps of p.  A member's key stands alone
\* (rootOnly) at the root and nowhere else, or (~rootOnly) wherever the
\* path of its parent is the empty string.
RECURSIVE PathOf(_, _, _)
PathOf(p, n, rootOnly) ==
  IF n = 0 THEN <<>>
  ELSE LET parent == PathOf(p, n - 1, rootOnly)
       IN IF p[n].kind = "index"
          THEN parent \o <<"[">> \o IntToString(p[n].index) \o <<"]">>
          ELSE IF (rootOnly /\ n = 1) \/ (~rootOnly /\ parent = <<>>)
          THEN p[n].key
          ELSE parent \o <<".">> \o p[n].key

\* Member k1 comes before member k2 of object x: in insertion order, or
\* (~insertion) array-index keys first, in ascending order, and the other
\* keys after them in insertion order.
KeyBefore(x, k1, k2, insertion) ==
  IF insertion \/ (~IsArrayIndex(k1) /\ ~IsArrayIndex(k2))
  THEN MemberIndex(x.props, k1) < MemberIndex(x.props, k2)
  ELSE IF IsArrayIndex(k1) /\ IsArrayIndex(k2)
  THEN ParseInt(k1) < ParseInt(k2)
  ELSE IsArrayIndex(k1)

\* Leaf p comes before leaf q of document x.
Before(x, p, q, insertion) ==
  LET d == CHOOSE n \in 1 .. Len(p) :
             p[n] # q[n] /\ \A m \in 1 .. n - 1 : p[m] = q[m]
      parent == NodeAt(x, SubSeq(p, 1, d - 1))
  IN IF parent.t = "arr" THEN p[d].index < q[d].index
     ELSE KeyBefore(parent, p[d].key, q[d].key, insertion)

RECURSIVE InOrder(_, _, _)
InOrder(x, leaves, insertion) ==
  IF leaves = {} THEN <<>>
  ELSE LET first == CHOOSE p \in leaves :
                      \A q \in leaves \ {p} : Before(x, p, q, insertion)
       IN <<first>> \o InOrder(x, leaves \ {first}, insertion)

\* One entry for each string leaf with non-whitespace content, in order
EntriesOf(x, insertion, rootOnly) ==
  LET leaves == InOrder(x, StringLeaves(x), insertion)
  IN [i \in 1 .. Len(leaves) |->
        [key |-> PathOf(leaves[i], Len(leaves[i]), rootOnly),
         value |-> NodeAt(x, leaves[i]).s,
         path |-> PathOf(leaves[i], Len(leaves[i]), rootOnly)]]

Text(entries) == [i \in 1 .. Len(entries) |-> <<entries[i].path, entries[i].value>>]

ExampleEntries ==
  << <<(<<"a">>), <<"H", "e", "l", "l", "o">> >>,
     <<(<<"b", ".", "c">>), <<"W", "o", "r", "l", "d">> >>,
     <<(<<"d", "[", "0", "]">>), <<"x">> >> >>

\* No key of the document is empty or holds one of . [ ]
RECURSIVE PlainKeys(_)
PlainKeys(x) ==
  /\ x.t = "obj" =>
       \A i \in 1 .. Len(x.props) :
         /\ x.props[i][1] # <<>>
         /\ \A j \in 1 .. Len(x.props[i][1]) :
              x.props[i][1][j] \notin {".", "[", "]"}
         /\ PlainKeys(x.props[i][2])
  /\ x.t = "arr" => \A i \in 1 .. Len(x.elems) : PlainKeys(x.elems[i])

\* The Map holds every extracted path with its original value.
WroteOriginals ==
  /\ step = "applied"
  /\ translationMap = MapOf(extracted, FALSE)

\* C9: round-trip law.  For every document (arrays nested directly inside
\* arrays included), writing every extracted (path, original value) pair
\* back onto a clone of the document yields a document equal to it.  Stated
\* here for the documents whose keys are non-empty and free of . [ ] only,
\* and equality being that of the JSON the two values serialize to.
C9_RoundTrip ==
  (WroteOriginals /\ PlainKeys(source)) => Clone(translated) = Clone(source)

C11_UniquePaths ==
  \A i, j \in 1 .. Len(extracted) :
    extracted[i].path = extracted[j].path => i = j

Written(json, path, value) ==
  SetNestedValue(json, path, value) = [ok |-> TRUE, node |-> json]

HasError(path) == \E i \in 1 .. Len(applyErrors) : applyErrors[i].key = path

\* The document when the n-th entry of the Map is about to be assigned, the
\* assignments before it having been made in turn
RECURSIVE DocumentAt(_)
DocumentAt(n) ==
  IF n = 1 THEN Clone(source)
  ELSE SetNestedValue(DocumentAt(n - 1), translationMap[n - 1][1],
                      translationMap[n - 1][2]).node

Fails(n) ==
  ~SetNestedValue(DocumentAt(n), translationMap[n][1], translationMap[n][2]).ok

\* C13: in applyTranslations a failing assignment is recorded as one error
\* entry keyed by its path and does not abort the others: the errors are
\* those of the failing paths, one each, every other path is written when
\* its turn comes, and the call returns the document after the last one
\* together with the errors.
C13_ErrorsDoNotAbort ==
  (step = "applied" \/ (step = "generated" /\ produced)) =>
    /\ \A i, j \in 1 .. Len(applyErrors) :
         applyErrors[i].key = applyErrors[j].key => i = j
    /\ \A n \in 1 .. Len(translationMap) :
         /\ Fails(n) <=> HasError(translationMap[n][1])
         /\ ~Fails(n) => Written(DocumentAt(n + 1), translationMap[n][1],
                                 translationMap[n][2])
    /\ \A i \in 1 .. Len(applyErrors) :
         \E n \in 1 .. Len(translationMap) :
           translationMap[n][1] = applyErrors[i].key
    /\ translated = DocumentAt(Len(translationMap) + 1)

\* The first assignment failed and a later one was written.
C13_Witness ==
  /\ step = "applied"
  /\ Len(translationMap) = 2 /\ Len(applyErrors) = 1
  /\ applyErrors[1].key = translationMap[1][1]
  /\ ~Written(Clone(source), translationMap[2][1], translationMap[2][2])
  /\ Written(translated, translationMap[2][1], translationMap[2][2])

\* The node at position p of x, or undefined where x has no such position
RECURSIVE Lookup(_, _)
Lookup(x, p) ==
  IF p = <<>> THEN x
  ELSE IF Head(p).kind = "key"
  THEN IF x.t = "obj" /\ MemberIndex(x.props, Head(p).key) # 0
       THEN Lookup(x.props[MemberIndex(x.props, Head(p).key)][2], Tail(p))
       ELSE Undef
  ELSE IF x.t = "arr" /\ Head(p).index < Len(x.elems)
       THEN Lookup(x.elems[Head(p).index + 1], Tail(p))
       ELSE Undef

\* Where the leaves of the progress items are in the source document
ItemPositions == InOrder(source, StringLeaves(source), FALSE)

\* Only completed items are in the Map, each with its translated text, and
\* the leaf of every item that is not completed is as in the source.
OnlyCompletedApplied ==
  /\ \A n \in 1 .. Len(translationMap) :
       \E i \in 1 .. Len(progressItems) :
         /\ progressItems[i].status = "completed"
         /\ progressItems[i].key = translationMap[n][1]
         /\ progressItems[i].translatedValue = translationMap[n][2]
  /\ \A i \in 1 .. Len(progressItems) :
       progressItems[i].status = "completed" =>
         \E n \in 1 .. Len(translationMap) :
           translationMap[n][1] = progressItems[i].key
  /\ produced =>
       \A i \in 1 .. Len(progressItems) :
         progressItems[i].status # "completed" =>
           Lookup(translated, ItemPositions[i]) = Str(progressItems[i].originalValue)

\* C14: when the translated document is generated with some items
\* completed and others failed or pending, only the completed items are
\* applied, the leaf of every failed or pending item equals the source
\* value, and the document is produced.
C14_PartialDocument ==
  (step = "generated" /\ \E i \in 1 .. Len(progressItems) :
                           progressItems[i].status = "completed")
    => (OnlyCompletedApplied /\ produced)

\* Paths that need not be paths of the document
ProbePaths ==
  {<<"a">>, <<"a", ".", "a">>, <<"a", "[", "1", "]">>,
   <<"a", "[", "0", "]", ".", "a">>, <<"0", ".", "a">>, <<".">>}

\* The members of a value in the order the engine keeps them (index keys
\* first): two values that are equal in this form cannot be told apart.
RECURSIVE InEngineOrder(_)
InEngineOrder(x) ==
  LET ks == IF x.t \in {"obj", "arr"}
            THEN [i \in 1 .. Len(x.props) |-> x.props[i][1]] ELSE <<>>
      ordered == IndexKeysAscending(SelectSeq(ks, IsArrayIndex))
                   \o SelectSeq(ks, LAMBDA k : ~IsArrayIndex(k))
  IN IF x.t \in {"obj", "arr"}
     THEN [x EXCEPT
             !.elems = [i \in 1 .. Len(x.elems) |-> InEngineOrder(x.elems[i])],
             !.props = [i \in 1 .. Len(ordered) |->
                          <<ordered[i],
                            InEngineOrder(x.props[MemberIndex(x.props,
                                                              ordered[i])][2])>>]]
     ELSE x

\* x and y are the same JSON document: JSON.stringify gives one text for
\* both (formatJSON, which the page shows and downloads).  An array slot
\* that was never assigned is written as null.
SameDocument(x, y) == Clone(x) = Clone(y)

\* setNestedValue(x, path, value) called twice leaves x as one call does,
\* and throws the second time exactly if it threw the first time.
SetTwice(x, path, value) ==
  LET once == SetNestedValue(x, path, value)
      twice == SetNestedValue(once.node, path, value)
  IN /\ twice.ok = once.ok
     /\ InEngineOrder(twice.node) = InEngineOrder(once.node)

\* C25: applying the same translation twice yields the document that
\* applying it once yields: setNestedValue called twice on the source and
\* on the translated document, with the paths of the Map and with other
\* paths, leaves the object as one call does; and applyTranslations called
\* with the same Map on its own result returns the same JSON document.
C25_IdempotentApply ==
  step = "applied" =>
    /\ \A n \in 1 .. Len(translationMap) :
         /\ SetTwice(source, translationMap[n][1], translationMap[n][2])
         /\ SetTwice(translated, translationMap[n][1], translationMap[n][2])
    /\ \A path \in ProbePaths :
         /\ SetTwice(source, path, <<"T">>)
         /\ SetTwice(translated, path, <<"T">>)
    /\ SameDocument(ApplyTranslations(translated, translationMap).translatedJSON,
                    translated)

\* A document with two translations applied, one of them under a key
\* that setNestedValue had to create
C25_Witness ==
  /\ step = "applied"
  /\ Len(translationMap) = 2
  /\ translated # source
  /\ Len(translated.props) > Len(source.props)


---------------------------------------------------------------------------
(* BatchTranslator (src/unnamed/part_001): pure parts *)

\* requestsPerMinute of the "anthropic" row of getDefaultRateLimits
BatchRequestsPerMinute == 300
\* setTimeout(resolve, 100) in the polling loop of translateBatch
BatchPollMs == 100

BatchMinInterval == (60 * 1000) \div BatchRequestsPerMinute
\* The clock of a translateBatch run advances in steps of BatchPollMs, and
\* the run is followed for one minimum interval of the rate limiter.
BatchHorizon == StartNow + BatchMinInterval

\* A bound of the model: rateLimitConfig.maxBatchSize of the runs explored
MaxBatchSize == 2
BatchSizes == 1 .. MaxBatchSize
BatchItem(i, k, v) == [id |-> i, key |-> k, value |-> v]

\* The items explored: a key path and a source text each
BatchItemKinds ==
  {<<<<"b">>, "Save">>, <<<<"a", ".", "b">>, "Save">>,
   <<<<"a", ".", "b">>, "Cancel">>}

\* items.length of the runs explored
BatchLengths == {0, 1, 2, 3}

BatchItemLists ==
  UNION { { [i \in 1 .. n |-> BatchItem(i, f[i][1], f[i][2])]
              : f \in [1 .. n -> BatchItemKinds] }
          : n \in BatchLengths }

\* A list of four items with one key, the last with a text of its own
FourItems ==
  [i \in 1 .. 4 |-> BatchItem(i, <<"b">>, IF i < 4 THEN "Save" ELSE "Cancel")]

\* key.split("[")[0]
BeforeBracket(key) ==
  IF \E i \in 1 .. Len(key) : key[i] = "["
  THEN SubSeq(key, 1, (CHOOSE i \in 1 .. Len(key) :
                         key[i] = "[" /\ \A j \in 1 .. i - 1 : key[j] # "[")
                      - 1)
  ELSE key

\* a.key.split(".")[0] || a.key.split("[")[0]
SectionKey(key) ==
  IF Split(key)[1] # <<>> THEN Split(key)[1] ELSE BeforeBracket(key)

\* The collation order of the characters that occur in section keys
Collation == <<"-", "[", "]", "0", "1", "a", "b">>

Rank(c) == CHOOSE i \in 1 .. Len(Collation) : Collation[i] = c

\* a.localeCompare(b) < 0
RECURSIVE LocaleBefore(_, _)
LocaleBefore(a, b) ==
  IF b = <<>> THEN FALSE
  ELSE IF a = <<>> THEN TRUE
  ELSE IF Rank(a[1]) # Rank(b[1]) THEN Rank(a[1]) < Rank(b[1])
  ELSE LocaleBefore(Tail(a), Tail(b))

\* Array.prototype.sort is stable: an item goes after every item whose
\* section key does not compare greater.
RECURSIVE InsertBySection(_, _)
InsertBySection(sorted, item) ==
  IF sorted = <<>> THEN <<item>>
  ELSE IF LocaleBefore(SectionKey(item.key),
                       SectionKey(sorted[Len(sorted)].key))
       THEN Append(InsertBySection(SubSeq(sorted, 1, Len(sorted) - 1), item),
                   sorted[Len(sorted)])
       ELSE Append(sorted, item)

RECURSIVE SortedItems(_, _)
SortedItems(its, n) ==
  IF n = 0 THEN <<>> ELSE InsertBySection(SortedItems(its, n - 1), its[n])

\* for (i = 0; i < sortedItems.length; i += maxBatchSize) slice(i, i + size)
RECURSIVE Slices(_, _)
Slices(sorted, size) ==
  IF sorted = <<>> THEN <<>>
  ELSE <<SubSeq(sorted, 1, Min(size, Len(sorted)))>>
       \o Slices(SubSeq(sorted, Min(size, Len(sorted)) + 1, Len(sorted)), size)

GroupItemsIntoBatches(its, size) == Slices(SortedItems(its, Len(its)), size)

\* The text the backend gives for a source text
TranslationText(v) == IF v = "Save" THEN "T1" ELSE "T2"

\* What translateKey resolves with for a single item
BackendAnswer(ok, v) ==
  IF ok
  THEN [success |-> TRUE, translatedValue |-> TranslationText(v),
        error |-> Undefined]
  ELSE [success |-> FALSE, translatedValue |-> "", error |-> "API error"]

\* What translateKey("batch", prompt) resolves with for m items: a failure,
\* or a text in which the line numbered i is present (found[i]) or not.
BatchResponses(m) ==
  {[success |-> FALSE, found |-> [i \in 1 .. m |-> FALSE]]}
  \cup {[success |-> TRUE, found |-> f] : f \in [1 .. m -> BOOLEAN]}

\* parseBatchResponse: the text of line i, or "" when there is none
ParseBatchResponse(r, its) ==
  [i \in 1 .. Len(its) |->
     IF r.found[i] THEN TranslationText(its[i].value) ELSE ""]

\* processBatch, the cache check: the results of the hits, and the misses
CachedResults(batch, c) ==
  LET hits == SelectSeq(batch, LAMBDA it : Truthy(CacheGet(c, it.value)))
  IN [i \in 1 .. Len(hits) |->
        CachedResult(hits[i], CacheGet(c, hits[i].value))]

Uncached(batch, c) ==
  SelectSeq(batch, LAMBDA it : ~Truthy(CacheGet(c, it.value)))

ParseFailure(item) ==
  ThrownResult(item, "Failed to parse batch translation result")

\* A fallback that reports the failure of the batch for each of its items.
BatchFailureResult(item, r) == ThrownResult(item, "Batch translation failed")

\* The result pushed for an item translated on its own
IndividualResult(item, r) == ItemResult(item, r)

\* The loop over the positions of a successful batch: one result each
ParsedResults(its, translations) ==
  [i \in 1 .. Len(its) |->
     IF Truthy(translations[i])
     THEN CachedResult(its[i], translations[i])
     ELSE ParseFailure(its[i])]

\* ... and cache.set for every position with a translation
RECURSIVE CacheParsed(_, _, _, _)
CacheParsed(c, its, translations, n) ==
  IF n = 0 THEN c
  ELSE LET before == CacheParsed(c, its, translations, n - 1)
       IN IF Truthy(translations[n])
          THEN CacheSet(before, its[n].value, translations[n])
          ELSE before


---------------------------------------------------------------------------
(* BatchTranslator: translateBatch as the event loop runs it.  A reaction  *)
(* of a settled promise is a microtask; microtasks run first in, first     *)
(* out, and timers and network responses only when none is queued.         *)

\* ParallelTranslator variables that a translateBatch run leaves alone
parIdle == <<requestQueue, cancelled, results, pc, cur, wake, pend,
             cancelCalled, pushed, atCancel>>

batchConfig == <<jsonVars, mergeVars, keyVars, pageVars, parseVars, parIdle, items, provider,
                 maxConcurrentRequests, maxBatchSize>>

batchFrame == <<batchConfig, initialBatches>>

\* for (let i = 0; i < initialBatches; i++) is running
StartingBatches == starting \in 1 .. initialBatches

\* waitForRateLimit: if (timeSinceLastRequest < minInterval)
MustWait(last) == now - last < BatchMinInterval

\* processNextBatch from its call to its first await, with reactions q
\* queued before it and reactions after queued by its caller afterwards;
\* pcs are the positions of the other calls.  It shifts a batch and enters
\* waitForRateLimit, which returns at once or sets a timer.
ProcessNextBatch(q, pcs, after) ==
  LET k == launched + 1
  IN /\ launched' = k
     /\ batches' = Tail(batches)
     /\ held' = [held EXCEPT ![k] = Head(batches)]
     /\ IF MustWait(lastRequestTime)
        THEN /\ batchPc' = [pcs EXCEPT ![k] = "ratewait"]
             /\ batchWake' = [batchWake EXCEPT
                                ![k] = lastRequestTime + BatchMinInterval]
             /\ microtasks' = q \o after
             /\ UNCHANGED <<lastRequestTime, requestTimes>>
        ELSE /\ batchPc' = [pcs EXCEPT ![k] = "admitted"]
             /\ lastRequestTime' = now
             /\ requestTimes' = RecordRequest(requestTimes, now)
             /\ microtasks' = Append(q, <<"admitted", k>>) \o after
             /\ UNCHANGED batchWake

\* A translateBatch that starts no batch beyond the initial ones.
NoSlot(left, act) == FALSE

\* if (batches.length > 0 && activeRequests < maxConcurrentRequests)
\*   processNextBatch();
SlotFree(left, act) == left # <<>> /\ act < maxConcurrentRequests

Continue(go, q, pcs, after) ==
  IF go
  THEN ProcessNextBatch(q, pcs, after)
  ELSE /\ batchPc' = pcs
       /\ microtasks' = q \o after
       /\ UNCHANGED <<launched, batches, held, batchWake, lastRequestTime,
                      requestTimes>>

\* this.activeRequests++
BatchCounted(act) == act + 1

\* A release written after the callbacks instead of in a finally block: it
\* is skipped when processBatch or a callback threw.
ReleaseUnlessThrown(act, threw) == IF threw THEN act ELSE act - 1

\* finally { this.activeRequests--; }
BatchRelease(act, threw) == act - 1

\* processNextBatch after waitForRateLimit: the batch is counted in flight
\* and processBatch runs to its first await (the batch request), to its
\* return (every item cached) or to the throw of createTranslator.
BeginBatch(k, q) ==
  /\ activeRequests' = BatchCounted(activeRequests)
  /\ IF ~Supported(provider)
     THEN /\ batchPc' = [batchPc EXCEPT ![k] = "threw"]
          /\ microtasks' = Append(q, <<"processed", k>>)
          /\ UNCHANGED <<uncachedItems, batchResults, calls>>
     ELSE /\ uncachedItems' =
               [uncachedItems EXCEPT ![k] = Uncached(held[k], cache)]
          /\ batchResults' =
               [batchResults EXCEPT ![k] = CachedResults(held[k], cache)]
          /\ IF Uncached(held[k], cache) = <<>>
             THEN /\ batchPc' = [batchPc EXCEPT ![k] = "processed"]
                  /\ microtasks' = Append(q, <<"processed", k>>)
                  /\ UNCHANGED calls
             ELSE /\ batchPc' = [batchPc EXCEPT ![k] = "batchcall"]
                  /\ microtasks' = q
                  /\ calls' = Append(calls, [by |-> k, item |-> 0])

\* while (activeRequests > 0 || batches.length > 0) { await 100 ms ... }
\* return allResults;
WhileLoop(act, left) ==
  IF act > 0 \/ left # <<>>
  THEN /\ mainPc' = "poll"
       /\ mainWake' = now + BatchPollMs
       /\ UNCHANGED <<promise, returned>>
  ELSE /\ mainPc' = "returned"
       /\ promise' = "resolved"
       /\ returned' = allResults
       /\ UNCHANGED mainWake

\* translateBatch up to its for loop.  With no batch, Promise.all([]) is
\* fulfilled at once and the function resumes in a microtask.
TranslateBatch ==
  /\ starting = 0
  /\ starting' = 1
  /\ completedCount' = 0
  /\ batches' = GroupItemsIntoBatches(items, maxBatchSize)
  /\ initialBatches' = Min(Len(batches'), maxConcurrentRequests)
  /\ IF batches' = <<>>
     THEN mainPc' = "resuming" /\ microtasks' = <<<<"main", 0>>>>
     ELSE mainPc' = "starting" /\ UNCHANGED microtasks
  /\ UNCHANGED <<batchConfig, activeRequests, cache, requestTimes,
                 lastRequestTime, promise, returned, now, calls, failedItems,
                 callbackThrew, progress, allResults, launched, held, batchPc,
                 batchWake, uncachedItems, batchResults, fallbackAt,
                 mainWake, initialPromises, batchFailed, parseFailed>>

\* promises.push(processNextBatch()); after the last one,
\* await Promise.all(promises).
StartBatch ==
  /\ StartingBatches
  /\ ProcessNextBatch(microtasks, batchPc, <<>>)
  /\ initialPromises' = initialPromises \cup {launched + 1}
  /\ starting' = starting + 1
  /\ mainPc' = IF starting = initialBatches THEN "all" ELSE mainPc
  /\ UNCHANGED <<batchFrame, activeRequests, completedCount, cache, promise,
                 returned, now, calls, failedItems, callbackThrew, progress, allResults,
                 uncachedItems, batchResults, fallbackAt, mainWake,
                 batchFailed, parseFailed>>

\* A call admitted without a wait resumes (a microtask).
Admitted(k) ==
  /\ ~StartingBatches
  /\ microtasks # <<>> /\ Head(microtasks) = <<"admitted", k>>
  /\ BeginBatch(k, Tail(microtasks))
  /\ UNCHANGED <<batchFrame, completedCount, cache, requestTimes,
                 lastRequestTime, starting, promise, returned, now,
                 failedItems, callbackThrew, progress, batches, allResults, launched,
                 held, batchWake, fallbackAt, mainPc, mainWake,
                 initialPromises, batchFailed, parseFailed>>

\* The timer of waitForRateLimit fires: lastRequestTime is written now,
\* after the wait, and the call goes on.
RateTimerFires(k) ==
  /\ ~StartingBatches /\ microtasks = <<>>
  /\ batchPc[k] = "ratewait" /\ batchWake[k] <= now
  /\ lastRequestTime' = now
  /\ requestTimes' = RecordRequest(requestTimes, now)
  /\ BeginBatch(k, <<>>)
  /\ UNCHANGED <<batchFrame, completedCount, cache, starting, promise,
                 returned, now, failedItems, callbackThrew, progress, batches,
                 allResults, launched, held, batchWake, fallbackAt, mainPc,
                 mainWake, initialPromises, batchFailed, parseFailed>>

\* The batch request resolves with r.  On success every position gets its
\* result from the parsed text and processBatch returns; on failure the
\* loop of individual calls starts with the first uncached item.
BatchReturn(k, r) ==
  /\ ~StartingBatches /\ microtasks = <<>>
  /\ batchPc[k] = "batchcall"
  /\ IF r.success
     THEN LET translations == ParseBatchResponse(r, uncachedItems[k])
          IN /\ cache' = CacheParsed(cache, uncachedItems[k], translations,
                                     Len(uncachedItems[k]))
             /\ batchResults' =
                  [batchResults EXCEPT
                     ![k] = @ \o ParsedResults(uncachedItems[k], translations)]
             /\ parseFailed' =
                  parseFailed \cup
                    {uncachedItems[k][i].id : i \in
                       {j \in 1 .. Len(uncachedItems[k]) : ~r.found[j]}}
             /\ batchPc' = [batchPc EXCEPT ![k] = "processed"]
             /\ microtasks' = <<<<"processed", k>>>>
             /\ UNCHANGED <<fallbackAt, calls, batchFailed>>
     ELSE /\ batchFailed' = batchFailed \cup {k}
          /\ fallbackAt' = [fallbackAt EXCEPT ![k] = 1]
          /\ batchPc' = [batchPc EXCEPT ![k] = "individual"]
          /\ calls' = Append(calls, [by |-> k, item |-> uncachedItems[k][1].id])
          /\ UNCHANGED <<cache, batchResults, parseFailed, microtasks>>
  /\ UNCHANGED <<batchFrame, activeRequests, completedCount, requestTimes,
                 lastRequestTime, starting, promise, returned, now,
                 failedItems, callbackThrew, progress, batches, allResults, launched,
                 held, batchWake, uncachedItems, mainPc, mainWake,
                 initialPromises>>

\* An individual request of the fallback loop resolves: a success is
\* cached, the item's result is pushed, and the loop goes on to the next
\* item or processBatch returns.
IndividualReturn(k, ok) ==
  /\ ~StartingBatches /\ microtasks = <<>>
  /\ batchPc[k] = "individual"
  /\ LET item == uncachedItems[k][fallbackAt[k]]
         r == BackendAnswer(ok, item.value)
     IN /\ cache' = CacheAfter(cache, item.value, r)
        /\ failedItems' = IF r.success THEN failedItems
                          ELSE failedItems \cup {item.id}
        /\ batchResults' =
             [batchResults EXCEPT ![k] = Append(@, IndividualResult(item, r))]
        /\ IF fallbackAt[k] < Len(uncachedItems[k])
           THEN /\ fallbackAt' = [fallbackAt EXCEPT ![k] = @ + 1]
                /\ calls' =
                     Append(calls,
                            [by |-> k,
                             item |-> uncachedItems[k][fallbackAt[k] + 1].id])
                /\ UNCHANGED <<batchPc, microtasks>>
           ELSE /\ batchPc' = [batchPc EXCEPT ![k] = "processed"]
                /\ microtasks' = <<<<"processed", k>>>>
                /\ UNCHANGED <<fallbackAt, calls>>
  /\ UNCHANGED <<batchFrame, activeRequests, completedCount, requestTimes,
                 lastRequestTime, starting, promise, returned, now,
                 callbackThrew, progress, batches, allResults, launched, held,
                 batchWake, uncachedItems, mainPc, mainWake, initialPromises,
                 batchFailed, parseFailed>>

\* await this.processBatch(batch) settles (a microtask).  If it threw, or a
\* callback throws (cb), the finally block releases the slot and the call
\* rejects; otherwise the results are pushed, the slot is released, the
\* next batch is started if a slot is free, and the call is fulfilled.  A
\* call that is in promises then queues the reaction of Promise.all.
Processed(k, cb) ==
  /\ ~StartingBatches
  /\ microtasks # <<>> /\ Head(microtasks) = <<"processed", k>>
  /\ batchPc[k] = "threw" => cb = "return"
  /\ LET rejects == batchPc[k] = "threw" \/ cb = "throw"
         reaction == IF k \in initialPromises
                     THEN <<<<"settled", k>>>> ELSE <<>>
     IN /\ IF batchPc[k] = "threw"
           THEN UNCHANGED <<allResults, completedCount, callbackThrew, progress>>
           ELSE /\ allResults' = allResults \o batchResults[k]
                /\ completedCount' = completedCount + Len(held[k])
                /\ callbackThrew' = (callbackThrew \/ cb = "throw")
                /\ progress' \in
                     {Append(progress, ProgressAfter(allResults'))}
                     \cup (IF cb = "throw" THEN {progress} ELSE {})
        /\ activeRequests' = BatchRelease(activeRequests, rejects)
        /\ Continue(~rejects /\ SlotFree(batches, activeRequests'),
                    Tail(microtasks),
                    [batchPc EXCEPT ![k] = IF rejects THEN "rejected"
                                           ELSE "done"],
                    reaction)
  /\ UNCHANGED <<batchFrame, cache, starting, promise, returned, now, calls,
                 failedItems, uncachedItems, batchResults, fallbackAt, mainPc,
                 mainWake, initialPromises, batchFailed, parseFailed>>

\* The reaction of Promise.all to one of promises settling (a microtask):
\* the first rejection rejects it, the last fulfilment fulfils it, and
\* translateBatch is queued to resume.
Settled(k) ==
  /\ ~StartingBatches
  /\ microtasks # <<>> /\ Head(microtasks) = <<"settled", k>>
  /\ initialPromises' = initialPromises \ {k}
  /\ IF mainPc = "all" /\ batchPc[k] = "rejected"
     THEN /\ mainPc' = "throwing"
          /\ microtasks' = Append(Tail(microtasks), <<"main", 0>>)
     ELSE IF mainPc = "all" /\ initialPromises' = {}
     THEN /\ mainPc' = "resuming"
          /\ microtasks' = Append(Tail(microtasks), <<"main", 0>>)
     ELSE /\ microtasks' = Tail(microtasks)
          /\ UNCHANGED mainPc
  /\ UNCHANGED <<batchFrame, activeRequests, completedCount, cache,
                 requestTimes, lastRequestTime, starting, promise, returned,
                 now, calls, failedItems, callbackThrew, progress, batches, allResults,
                 launched, held, batchPc, batchWake, uncachedItems,
                 batchResults, fallbackAt, mainWake, batchFailed,
                 parseFailed>>

\* translateBatch resumes after await Promise.all (a microtask): it throws
\* what Promise.all rejected with, or enters its polling loop.
Resume ==
  /\ ~StartingBatches
  /\ microtasks # <<>> /\ Head(microtasks) = <<"main", 0>>
  /\ microtasks' = Tail(microtasks)
  /\ IF mainPc = "throwing"
     THEN /\ mainPc' = "rejected"
          /\ promise' = "rejected"
          /\ UNCHANGED <<returned, mainWake>>
     ELSE WhileLoop(activeRequests, batches)
  /\ UNCHANGED <<batchFrame, activeRequests, completedCount, cache,
                 requestTimes, lastRequestTime, starting, now, calls,
                 failedItems, callbackThrew, progress, batches, allResults, launched,
                 held, batchPc, batchWake, uncachedItems, batchResults,
                 fallbackAt, initialPromises, batchFailed, parseFailed>>

\* The 100 ms timer of the polling loop fires: a batch is started if a
\* slot is free, and the loop condition is evaluated again.
PollFires ==
  /\ ~StartingBatches /\ microtasks = <<>>
  /\ mainPc = "poll" /\ mainWake <= now
  /\ Continue(SlotFree(batches, activeRequests), <<>>, batchPc, <<>>)
  /\ WhileLoop(activeRequests, batches')
  /\ UNCHANGED <<batchFrame, activeRequests, completedCount, cache, starting,
                 now, calls, failedItems, callbackThrew, progress, allResults,
                 uncachedItems, batchResults, fallbackAt, initialPromises,
                 batchFailed, parseFailed>>

BatchTimerDue ==
  \/ \E k \in BatchCalls : batchPc[k] = "ratewait" /\ batchWake[k] <= now
  \/ mainPc = "poll" /\ mainWake <= now

\* Time passes while nothing is runnable.
BatchTick ==
  /\ starting > 0 /\ ~StartingBatches /\ microtasks = <<>> /\ ~BatchTimerDue
  /\ now < BatchHorizon
  /\ \/ mainPc = "poll"
     \/ \E k \in BatchCalls :
          batchPc[k] \in {"ratewait", "batchcall", "individual"}
  /\ now' = now + BatchPollMs
  /\ UNCHANGED <<batchFrame, activeRequests, completedCount, cache,
                 requestTimes, lastRequestTime, starting, promise, returned,
                 calls, failedItems, callbackThrew, progress, batches, allResults,
                 launched, held, batchPc, batchWake, uncachedItems,
                 batchResults, fallbackAt, microtasks, mainPc, mainWake,
                 initialPromises, batchFailed, parseFailed>>

InitBatch ==
  /\ items \in BatchItemLists \cup {FourItems}
  /\ provider \in Providers
  /\ maxConcurrentRequests \in ConcurrencyLevels
  /\ maxBatchSize \in BatchSizes
  /\ Constructed
  /\ NoDocument
  /\ NotCalled
  /\ NoRetryFailed
  /\ NoKeyCall
  /\ NoPage
  /\ NotParsing

NextBatch ==
  \/ TranslateBatch
  \/ StartBatch
  \/ \E k \in BatchCalls : Admitted(k)
  \/ \E k \in BatchCalls : RateTimerFires(k)
  \/ \E k \in BatchCalls :
       \E r \in BatchResponses(Len(uncachedItems[k])) : BatchReturn(k, r)
  \/ \E k \in BatchCalls, ok \in BOOLEAN : IndividualReturn(k, ok)
  \/ \E k \in BatchCalls, cb \in {"return", "throw"} : Processed(k, cb)
  \/ \E k \in BatchCalls : Settled(k)
  \/ Resume
  \/ PollFires
  \/ BatchTick

SpecBatch == InitBatch /\ [][NextBatch]_vars


---------------------------------------------------------------------------
(* Properties of translateBatch *)

\* The outcomes in rs for the item with this id
OutcomesFor(rs, id) == {j \in 1 .. Len(rs) : rs[j].id = id}

\* C15: the array translateBatch resolves with holds exactly one outcome
\* for each input item, none missing and none duplicated, whatever the
\* batch size, the concurrency limit and the timing of waits and calls.
C15_CompleteOutcomes ==
  promise = "resolved" =>
    /\ Len(returned) = Len(items)
    /\ \A i \in 1 .. Len(items) :
         Cardinality(OutcomesFor(returned, items[i].id)) = 1

\* C16: the array translateBatch resolves with is in input order:
\* returned[i] is the outcome of items[i].
C16_InputOrder ==
  (promise = "resolved" /\ Len(returned) = Len(items)) =>
    \A i \in 1 .. Len(items) : returned[i].id = items[i].id

\* C17: at no instant are more than maxConcurrentRequests batches in
\* flight, whichever of the initial loop, the continuation of a finished
\* batch and the polling loop started them.
C17_BatchConcurrencyBound ==
  promise = "pending" => activeRequests <= maxConcurrentRequests


\* processBatch has returned in call k
BatchProcessed(k) == batchPc[k] \in {"processed", "done", "rejected"}

\* The individual requests call k made for the item with this id
IndividualCalls(k, id) ==
  {c \in 1 .. Len(calls) : calls[c].by = k /\ calls[c].item = id}

\* C18: when the request for a whole batch returns success=false, every
\* uncached item of the batch gets one individual request (and no cached
\* item gets any), and its outcome is that of its own request: a success
\* with the translation, or a failure.
C18_IndividualFallback ==
  \A k \in BatchCalls :
    (k \in batchFailed /\ BatchProcessed(k)) =>
      /\ \A i \in 1 .. Len(uncachedItems[k]) :
           LET item == uncachedItems[k][i]
               own == OutcomesFor(batchResults[k], item.id)
           IN /\ Cardinality(IndividualCalls(k, item.id)) = 1
              /\ Cardinality(own) = 1
              /\ \A j \in own :
                   /\ batchResults[k][j].success = (item.id \notin failedItems)
                   /\ batchResults[k][j].success =>
                        batchResults[k][j].translatedValue
                          = TranslationText(item.value)
      /\ \A i \in 1 .. Len(held[k]) :
           (\A j \in 1 .. Len(uncachedItems[k]) :
              uncachedItems[k][j].id # held[k][i].id)
             => IndividualCalls(k, held[k][i].id) = {}

\* A failed batch of two uncached items, of which one then succeeded on its
\* own and the other failed
C18_Witness ==
  \E k \in BatchCalls :
    /\ k \in batchFailed /\ BatchProcessed(k)
    /\ Len(uncachedItems[k]) = 2
    /\ uncachedItems[k][1].id \in failedItems
    /\ uncachedItems[k][2].id \notin failedItems


\* C19: when the batch request succeeds but a position parses to the empty
\* string, its item gets one individual request, and it is reported as
\* failed only if that request fails too.
C19_ParseFallback ==
  \A k \in BatchCalls :
    BatchProcessed(k) =>
      \A i \in 1 .. Len(uncachedItems[k]) :
        LET item == uncachedItems[k][i]
        IN item.id \in parseFailed =>
             /\ Cardinality(IndividualCalls(k, item.id)) = 1
             /\ \A j \in OutcomesFor(batchResults[k], item.id) :
                  ~batchResults[k][j].success => item.id \in failedItems

\* processNext has counted worker w in activeRequests and not released it.
Holding(w) == pc[w] \in {"ratewait", "admitted", "backend", "result"}

\* Worker w takes an item in this step and processItem answers it from the
\* cache.
TakesCacheHit(w) ==
  /\ pc'[w] = "result" /\ pend'[w].success
  /\ pc[w] # "result" \/ cur'[w] # cur[w]

\* processBatch of call k finds every item of its batch in the cache in
\* this step.
TakesCachedBatch(k) ==
  /\ batchPc[k] \in {"admitted", "ratewait"}
  /\ batchPc'[k] = "processed"
  /\ held[k] # <<>> /\ uncachedItems'[k] = <<>>

\* C26: an item answered from the cache takes no concurrency slot
\* (activeRequests is not incremented for it) and no rate-limit budget (no
\* wait, lastRequestTime and requestTimes unchanged), in translateParallel
\* and in translateBatch.
C26_CacheHitIsFree ==
  [][/\ \A w \in Workers :
          TakesCacheHit(w) =>
            /\ activeRequests' =
                 IF Holding(w) THEN Release(activeRequests) ELSE activeRequests
            /\ UNCHANGED <<lastRequestTime, requestTimes>>
     /\ \A k \in BatchCalls :
          TakesCachedBatch(k) =>
            /\ activeRequests' = activeRequests
            /\ batchPc[k] # "ratewait"
            /\ UNCHANGED <<lastRequestTime, requestTimes>>]_vars

\* The part of C26 about translateParallel
C26_ParallelCacheHit ==
  [][\A w \in Workers :
       TakesCacheHit(w) =>
         /\ activeRequests' =
              IF Holding(w) THEN Release(activeRequests) ELSE activeRequests
         /\ UNCHANGED <<lastRequestTime, requestTimes>>]_vars

\* translateParallel does keep the rate-limit budget on a cache hit.
CacheHitKeepsBudget ==
  [][\A w \in Workers :
       TakesCacheHit(w) => UNCHANGED <<lastRequestTime, requestTimes>>]_vars


---------------------------------------------------------------------------
(* Properties of retry-failed *)

\* The outcome a progress item shows
Outcome(item) == <<item.status, item.translatedValue>>

\* C20: retry-failed submits exactly the failed items; when it is over the
\* list has the length and order it had, every item that was not failed is
\* as it was, and every retried item shows the outcome of its own retry;
\* with nothing failed no call is made and the list is as it was.
C20_RetryReplacesFailed ==
  step = "retried" =>
    /\ Len(retryItems) = Cardinality({e \in 1 .. Len(beforeRetry) :
                                        beforeRetry[e].status = "error"})
    /\ \A j \in 1 .. Len(retryItems) :
         /\ beforeRetry[retryOf[j]].status = "error"
         /\ retryItems[j].key = beforeRetry[retryOf[j]].key
    /\ Len(progressItems) = Len(beforeRetry)
    /\ \A e \in 1 .. Len(beforeRetry) :
         /\ progressItems[e].key = beforeRetry[e].key
         /\ beforeRetry[e].status # "error"
              => progressItems[e] = beforeRetry[e]
    /\ \A j \in 1 .. Len(retryItems) :
         Outcome(progressItems[retryOf[j]])
           = IF retryOutcome[j]
             THEN <<"completed",
                    TranslationOf(beforeRetry[retryOf[j]].originalValue)>>
             ELSE <<"error", <<>>>>


---------------------------------------------------------------------------
(* ParallelTranslator.retryFailed (openai-translator.ts, lines 397-430)    *)

\* An outcome of an earlier run for item i
PreviousOutcome(i, success) ==
  IF success
  THEN [id |-> i, key |-> i, success |-> TRUE, translatedValue |-> "T1",
        error |-> Undefined]
  ELSE [id |-> i, key |-> i, success |-> FALSE, translatedValue |-> "",
        error |-> "API error"]

\* The outcome lists retryFailed is given: those of a run over up to
\* MaxItems items, in input order
PreviousResultLists ==
  UNION { { [i \in 1 .. n |-> PreviousOutcome(i, f[i])]
              : f \in [1 .. n -> BOOLEAN] }
          : n \in 0 .. MaxItems }

\* The outcome lists a run over these items can have returned
OutcomeListsOf(its) == {p \in PreviousResultLists : Len(p) = Len(its)}

\* An item made from a failed outcome with the text of this item.
RetryItemOf(result, value) ==
  [id |-> result.id, key |-> result.key, value |-> value]

\* .map(result => ({ id: result.id, key: result.key, value: "" }))
RetryItem(result) == RetryItemOf(result, "")

\* previousResults.filter(result => !result.success).map(...)
FailedItemsOf(previous) ==
  LET failed == SelectSeq(previous, LAMBDA r : ~r.success)
  IN [j \in 1 .. Len(failed) |-> RetryItem(failed[j])]

\* index = updatedResults.findIndex(r => r.id === retryResult.id);
\* if (index !== -1) updatedResults[index] = retryResult;
ReplaceById(updated, retryResult) ==
  IF IndexOfId(updated, retryResult.id) # -1
  THEN [updated EXCEPT ![IndexOfId(updated, retryResult.id)] = retryResult]
  ELSE updated

\* retryResults.forEach over the first n retry results
RECURSIVE MergeResults(_, _, _)
MergeResults(previous, retryResults, n) ==
  IF n = 0 THEN previous
  ELSE ReplaceById(MergeResults(previous, retryResults, n - 1),
                   retryResults[n])

\* retryFailed up to its await: it returns previousResults when nothing
\* is failed, and otherwise calls translateParallel(failedItems), which
\* resets the fields of the run.
RetryFailed ==
  /\ retryPc = "init" /\ starting = 0
  /\ IF FailedItemsOf(previousResults) = <<>>
     THEN /\ retryPc' = "returned"
          /\ updatedResults' = previousResults
          /\ UNCHANGED <<items, starting, completedCount, cancelled,
                         requestQueue, results>>
     ELSE /\ retryPc' = "running"
          /\ items' = FailedItemsOf(previousResults)
          /\ starting' = 1
          /\ completedCount' = 0
          /\ cancelled' = FALSE
          /\ requestQueue' = [i \in 1 .. Len(items') |-> i]
          /\ results' = <<>>
          /\ UNCHANGED updatedResults
  /\ UNCHANGED <<provider, maxConcurrentRequests, activeRequests, cache,
                 requestTimes, lastRequestTime, pc, cur, wake, pend, promise,
                 returned, now, historyVars, previousResults, originalItems>>
  /\ UNCHANGED <<jsonVars, batchVars, keyVars, pageVars, parseVars>>

\* await this.translateParallel(...) settles: the retry results are merged
\* into a copy of previousResults, or retryFailed rejects as the run did.
Merge ==
  /\ retryPc = "running" /\ promise # "pending"
  /\ IF promise = "resolved"
     THEN /\ updatedResults' =
               MergeResults(previousResults, returned, Len(returned))
          /\ retryPc' = "returned"
     ELSE /\ retryPc' = "rejected"
          /\ UNCHANGED updatedResults
  /\ UNCHANGED <<parVars, jsonVars, batchVars, keyVars, pageVars, parseVars,
                 previousResults, originalItems>>

InitRetry ==
  /\ items = <<>>
  /\ provider \in Providers
  /\ maxConcurrentRequests \in ConcurrencyLevels
  /\ Constructed
  /\ NoDocument
  /\ NoBatchRun
  /\ originalItems \in ItemLists
  /\ previousResults \in OutcomeListsOf(originalItems)
  /\ retryPc = "init"
  /\ updatedResults = <<>>
  /\ NoKeyCall
  /\ NoPage
  /\ NotParsing

NextRetry ==
  \/ RetryFailed
  \/ StartWorker
  \/ \E w \in Workers : TimerFires(w)
  \/ \E w \in Workers : Dispatch(w)
  \/ \E w \in Workers, r \in BackendResults, cb \in {"return", "throw"} :
       BackendReturn(w, r, cb)
  \/ \E w \in Workers, cb \in {"return", "throw"} : Complete(w, cb)
  \/ Resolve
  \/ Cancel
  \/ Tick
  \/ Merge

SpecRetry == InitRetry /\ [][NextRetry]_vars

Ids(rs) == [i \in 1 .. Len(rs) |-> rs[i].id]

\* Under SpecRetry: when retryFailed returns, the array has the length and
\* order of previousResults, every successful entry is as it was, every
\* failed entry holds the retry result with its id (or is as it was when
\* the run produced none), the items submitted were exactly the failed
\* ones, and with nothing failed no backend call was made.
RetryFailedMerges ==
  retryPc = "returned" =>
    /\ Len(updatedResults) = Len(previousResults)
    /\ Ids(items) = Ids(SelectSeq(previousResults, LAMBDA r : ~r.success))
    /\ \A i \in 1 .. Len(previousResults) :
         LET new == OutcomesFor(returned, previousResults[i].id)
         IN /\ updatedResults[i].id = previousResults[i].id
            /\ previousResults[i].success
                 => updatedResults[i] = previousResults[i]
            /\ (~previousResults[i].success /\ new = {})
                 => updatedResults[i] = previousResults[i]
            /\ ~previousResults[i].success
                 => \A j \in new : updatedResults[i] = returned[j]
    /\ items = <<>> => (calls = <<>> /\ updatedResults = previousResults)

\* C21: every backend call of a retryFailed run is made with the source
\* text the item of that id had in the run that produced previousResults.
C21_RetryUsesSourceText ==
  retryPc # "init" =>
    \A k \in 1 .. Len(calls) :
      calls[k].value = originalItems[items[calls[k].item].id].value

---------------------------------------------------------------------------
(* translateKey as the event loop runs it *)

keyFrame == <<parVars, jsonVars, batchVars, mergeVars, pageVars, parseVars>>

\* translateKey up to await fetch(...), or to its return when the
\* configuration is invalid.
TranslateKey ==
  /\ keyPc = "idle"
  /\ IF ~ValidateConfig(keyConfig)
     THEN /\ keyResult' = FailureResult("Invalid configuration")
          /\ keyPc' = "returned"
          /\ UNCHANGED fetches
     ELSE /\ fetches' = fetches + 1
          /\ keyPc' = "fetch"
          /\ UNCHANGED keyResult
  /\ UNCHANGED <<keyConfig, response, keyFrame>>

\* await fetch settles: a rejection goes to the catch block, a response
\* goes on to await response.json().
FetchSettles(r) ==
  /\ keyPc = "fetch"
  /\ response' = r
  /\ IF r.failed
     THEN /\ keyResult' = Caught("Translation failed").result
          /\ keyPc' = IF Caught("Translation failed").threw
                      THEN "threw" ELSE "returned"
     ELSE /\ keyPc' = "json"
          /\ UNCHANGED keyResult
  /\ UNCHANGED <<keyConfig, fetches, keyFrame>>

\* What translateKey does with the parsed body of the response
Outcome23(backend, r) ==
  IF ~r.ok
  THEN ReadError(IF r.body = NotJSON THEN Obj(<<>>) ELSE r.body)
  ELSE IF r.body = NotJSON THEN Caught("Translation failed")
  ELSE ReadTranslation(backend, r.body)

\* await response.json() settles and translateKey runs to its end.
JsonSettles ==
  /\ keyPc = "json"
  /\ keyResult' = Outcome23(keyConfig.provider, response).result
  /\ keyPc' = IF Outcome23(keyConfig.provider, response).threw
              THEN "threw" ELSE "returned"
  /\ UNCHANGED <<keyConfig, response, fetches, keyFrame>>

InitKey ==
  /\ items = <<>>
  /\ provider = "openai"
  /\ maxConcurrentRequests = 1
  /\ Constructed
  /\ NoDocument
  /\ NoBatchRun
  /\ NoRetryFailed
  /\ keyConfig \in Configs
  /\ keyPc = "idle"
  /\ response = NoResponse
  /\ keyResult = NoKeyResult
  /\ fetches = 0
  /\ NoPage
  /\ NotParsing

NextKey ==
  \/ TranslateKey
  \/ \E r \in Responses : FetchSettles(r)
  \/ JsonSettles

SpecKey == InitKey /\ [][NextKey]_vars

(* Properties of translateKey *)

\* The text a well-formed response carries for this backend, if any
Carried(backend, body) ==
  LET path == ContentPath(backend)
      at == Follow(body, path)
  IN IF body.t \in {"obj", "arr"} /\ at.t = "str" THEN Trim(at.s) ELSE <<>>

\* C23: translateKey never throws.  With an invalid configuration it
\* returns a failure and has issued no request; after a network error, a
\* response that is not OK, or a response without a non-blank translation
\* it returns success=false with an empty translatedValue and an error;
\* and it returns success=true only with a non-empty translatedValue.
C23_ErrorsAreReturned ==
  /\ keyPc # "threw"
  /\ ~ValidateConfig(keyConfig) => fetches = 0
  /\ keyPc = "returned" =>
       /\ ~ValidateConfig(keyConfig)
            => keyResult = FailureResult("Invalid configuration")
       /\ keyResult.success
            => /\ keyResult.translatedValue # <<>>
               /\ keyResult.error = Undefined
               /\ response.ok /\ ~response.failed
               /\ keyResult.translatedValue
                    = Carried(keyConfig.provider, response.body)
       /\ ~keyResult.success
            => /\ keyResult.translatedValue = <<>>
               /\ keyResult.error # Undefined
       /\ (ValidateConfig(keyConfig)
             /\ (response.failed \/ ~response.ok
                   \/ Carried(keyConfig.provider, response.body) = <<>>))
            => ~keyResult.success

\* A valid configuration, an OK response whose translation is blank, and
\* the failure returned for it
C23_Witness ==
  /\ keyPc = "returned"
  /\ ValidateConfig(keyConfig)
  /\ response.ok /\ response.body \in Bodies
  /\ Follow(response.body, ContentPath(keyConfig.provider)) = Str(<<" ">>)
  /\ keyResult = FailureResult("No translation received")


---------------------------------------------------------------------------
(* TranslationPage (src/unnamed/part_006): the handlers of the start,      *)
(* pause, resume, stop and retry buttons and the translation loops they    *)
(* start.  A handler reads state from the render it was created in, which  *)
(* is the state at the click, for as long as it runs; setState(prev => ..) *)
(* and translationInProgress.current act on the page as it is then.  A     *)
(* loop is one call of processTranslations or of handleRetryFailed.        *)

\* The number of start, resume and retry clicks followed
MaxLoops == 3

\* JSONProcessor.validateForTranslation
ValidateForTranslation(text) ==
  IF ~ValidateJSON(text).valid THEN ValidateJSON(text)
  ELSE LET keyCount == Len(ExtractTranslatableKeys(text.value))
       IN IF keyCount = 0
          THEN [valid |-> FALSE,
                error |-> "No translatable strings found in the JSON",
                keyCount |-> -1, threw |-> FALSE]
          ELSE [valid |-> TRUE, error |-> "none", keyCount |-> keyCount,
                threw |-> FALSE]

\* The effect on state.originalJSON: no item for a blank text or a text
\* that is not JSON, else an item for every extracted key.
ItemsOf(text) ==
  IF text.kind = "json"
  THEN PendingItems(ExtractTranslatableKeys(text.value))
  ELSE <<>>

\* {"a": "Hi", "b": {"c": "Yo"}}
PairDocument ==
  Obj(<< <<(<<"a">>), Str(<<"H", "i">>)>>,
         <<(<<"b">>), Obj(<< <<(<<"c">>), Str(<<"Y", "o">>)>> >>)>> >>)

\* The texts of the source editor that are explored
SourceTexts ==
  {BlankText, MalformedText}
    \cup {TextOf(x) : x \in Leaves \cup {Arr(<<>>), PairDocument,
                                         DottedKeyDocument}}

\* Positions of a list of progress items
CompletedPositions(its) ==
  {p \in 1 .. Len(its) : its[p].status = "completed"}

PendingPositions(its) ==
  SelectSeq([p \in 1 .. Len(its) |-> p], LAMBDA p : its[p].status = "pending")

\* The page as a handler finds it
PageState ==
  [items |-> progressItems, currentIndex |-> currentIndex,
   isTranslating |-> isTranslating, isPaused |-> isPaused,
   current |-> translationInProgress]

\* TranslationProgress: which buttons are rendered
Rendered == isConfigured /\ progressItems # <<>>
HasStarted == currentIndex > 0 \/ isTranslating
IsCompleted ==
  progressItems # <<>> /\
  CompletedPositions(progressItems) = 1 .. Len(progressItems)
StartShown == Rendered /\ ~HasStarted
PauseShown == Rendered /\ isTranslating
ResumeShown == Rendered /\ HasStarted /\ ~isTranslating /\ ~IsCompleted
StopShown == Rendered /\ HasStarted /\ ~IsCompleted
RetryShown ==
  Rendered /\ FailedEntries(progressItems) # <<>> /\ ~isTranslating

\* A loop: who started it, the strategy it read from state, the positions
\* it has still to go through, those its state shows as completed, and
\* those whose backend call is in flight.
Loop(by, optimized, queue, skip) ==
  [by |-> by, optimized |-> optimized, pc |-> "notify", queue |-> queue,
   skip |-> skip, inflight |-> {}]

\* A loop whose handler has returned
Over(l) == [by |-> "none", optimized |-> FALSE, pc |-> "over",
            queue |-> <<>>, skip |-> {}, inflight |-> {}]

Live(n) == loops[n].pc # "over"

\* if (translationInProgress.current) setState(... isTranslating: false),
\* and the finally block of the handler; handleRetryFailed does not test
\* the flag.
Finish(l, st) ==
  [loop |-> Over(l),
   st |-> [st EXCEPT !.isTranslating =
                        IF st.current \/ l.by = "retry" THEN FALSE ELSE @,
                     !.current = FALSE]]

\* A loop that goes on whatever translationInProgress.current is.
UncheckedFlag(flag) == TRUE

\* i < state.progressItems.length && translationInProgress.current
CheckedFlag(flag) == flag

\* processLegacyTranslations from the head of its for loop to its next
\* await or to the return of the handler
RECURSIVE LegacyLoop(_, _)
LegacyLoop(l, st) ==
  IF l.queue = <<>> \/ ~CheckedFlag(st.current) THEN Finish(l, st)
  ELSE LET p == Head(l.queue)
       IN IF p \in l.skip
          THEN LegacyLoop([l EXCEPT !.queue = Tail(@)],
                          [st EXCEPT !.currentIndex = p])
          ELSE [loop |-> [l EXCEPT !.queue = Tail(@), !.inflight = {p},
                                   !.pc = "await"],
                st |-> [st EXCEPT !.currentIndex = p - 1,
                                  !.items[p].status = "translating"]]

\* processOptimizedTranslations, or handleRetryFailed, up to the first
\* await of translateParallel: with no item it returns; else every item
\* has a worker, the first has passed waitForRateLimit and its backend call
\* is made, and the others wait for the timer of waitForRateLimit.
ParallelBegin(l, st) ==
  IF l.queue = <<>> THEN Finish(l, [st EXCEPT !.current = TRUE])
  ELSE [loop |-> [l EXCEPT !.queue = Tail(@), !.inflight = {Head(l.queue)},
                           !.pc = "parallel"],
        st |-> st]

\* processTranslations
ProcessTranslations(l, st) ==
  IF l.optimized THEN ParallelBegin(l, st) ELSE LegacyLoop(l, st)

\* What a step leaves alone outside the page
pageFrame == <<parVars, batchVars, mergeVars, keyVars, parseVars, source,
               extracted,
               translationMap, translated, applyErrors, produced, step,
               retryVars>>

pageConfig == <<originalJSONText, validation, isConfigured,
                useOptimizedTranslation>>

\* The page after a step of loop n that leaves it as r
Commit(n, r) ==
  /\ loops' = [loops EXCEPT ![n] = r.loop]
  /\ progressItems' = r.st.items
  /\ currentIndex' = r.st.currentIndex
  /\ isTranslating' = r.st.isTranslating
  /\ isPaused' = r.st.isPaused
  /\ translationInProgress' = r.st.current

\* A handler call that starts loop l and runs it to r
Started(r) ==
  /\ loops' = Append(loops, r.loop)
  /\ progressItems' = r.st.items
  /\ currentIndex' = r.st.currentIndex
  /\ isTranslating' = r.st.isTranslating
  /\ isPaused' = r.st.isPaused
  /\ translationInProgress' = r.st.current
  /\ halted' = {}

\* The effect of JSONEditor on its value
ValidateValue ==
  /\ validation = NoValidation
  /\ validation' = IF originalJSONText = BlankText THEN BlankValidation
                   ELSE ValidateForTranslation(originalJSONText)
  /\ UNCHANGED <<pageFrame, progressItems, originalJSONText, isConfigured,
                 useOptimizedTranslation, isTranslating, isPaused,
                 currentIndex, translationInProgress, loops, halted,
                 doneAtResume>>

\* handleConfigSave, pressed after the effects of the first render have run
HandleConfigSave ==
  /\ validation # NoValidation
  /\ isConfigured' = TRUE
  /\ UNCHANGED <<pageFrame, progressItems, originalJSONText, validation,
                 useOptimizedTranslation, isTranslating, isPaused,
                 currentIndex, translationInProgress, loops, halted,
                 doneAtResume>>

\* onOptimizationToggle(enabled)
OptimizationToggle(enabled) ==
  /\ validation # NoValidation
  /\ useOptimizedTranslation' = enabled
  /\ UNCHANGED <<pageFrame, progressItems, originalJSONText, validation,
                 isConfigured, isTranslating, isPaused, currentIndex,
                 translationInProgress, loops, halted, doneAtResume>>

\* handleStartTranslation up to await requestNotificationPermission()
HandleStartTranslation ==
  /\ StartShown
  /\ Len(loops) < MaxLoops
  /\ isConfigured /\ progressItems # <<>> /\ ~translationInProgress
  /\ Started([loop |-> Loop("start", useOptimizedTranslation,
                            IF useOptimizedTranslation
                            THEN PendingPositions(progressItems)
                            ELSE [p \in 1 .. Len(progressItems) - currentIndex
                                    |-> currentIndex + p],
                            IF useOptimizedTranslation THEN {}
                            ELSE CompletedPositions(progressItems)),
              st |-> [PageState EXCEPT !.current = TRUE,
                                       !.isTranslating = TRUE,
                                       !.isPaused = FALSE,
                                       !.currentIndex = 0]])
  /\ UNCHANGED <<pageFrame, pageConfig, doneAtResume>>

\* handleStartTranslation after await notifyTranslationStarted(...)
Notified(n) ==
  /\ loops[n].pc = "notify"
  /\ Commit(n, ProcessTranslations(loops[n], PageState))
  /\ UNCHANGED <<pageFrame, pageConfig, halted, doneAtResume>>

HandlePauseTranslation ==
  /\ PauseShown
  /\ translationInProgress' = FALSE
  /\ isTranslating' = FALSE
  /\ isPaused' = TRUE
  /\ halted' = {n \in 1 .. Len(loops) : Live(n)}
  /\ UNCHANGED <<pageFrame, pageConfig, progressItems, currentIndex, loops,
                 doneAtResume>>

HandleResumeTranslation ==
  /\ ResumeShown
  /\ Len(loops) < MaxLoops
  /\ ~translationInProgress
  /\ LET l == Loop("resume", useOptimizedTranslation,
                   IF useOptimizedTranslation
                   THEN PendingPositions(progressItems)
                   ELSE [p \in 1 .. Len(progressItems) - currentIndex
                           |-> currentIndex + p],
                   IF useOptimizedTranslation THEN {}
                   ELSE CompletedPositions(progressItems))
     IN Started(ProcessTranslations(l, [PageState EXCEPT
                                          !.current = TRUE,
                                          !.isTranslating = TRUE,
                                          !.isPaused = FALSE]))
  /\ doneAtResume' = CompletedPositions(progressItems)
  /\ UNCHANGED <<pageFrame, pageConfig>>

HandleStopTranslation ==
  /\ StopShown
  /\ translationInProgress' = FALSE
  /\ isTranslating' = FALSE
  /\ isPaused' = FALSE
  /\ currentIndex' = 0
  /\ progressItems' =
       [p \in 1 .. Len(progressItems) |->
          [progressItems[p] EXCEPT
             !.status = IF @ = "completed" THEN "completed" ELSE "pending"]]
  /\ halted' = {n \in 1 .. Len(loops) : Live(n)}
  /\ UNCHANGED <<pageFrame, pageConfig, loops, doneAtResume>>

\* handleRetryFailed up to the first await of translateParallel
RetryFailedPressed ==
  /\ RetryShown
  /\ Len(loops) < MaxLoops
  /\ ~translationInProgress
  /\ FailedEntries(progressItems) # <<>>
  /\ Started(ParallelBegin(Loop("retry", TRUE, FailedEntries(progressItems),
                                {}),
                           [PageState EXCEPT !.current = TRUE,
                                             !.isTranslating = TRUE,
                                             !.isPaused = FALSE]))
  /\ UNCHANGED <<pageFrame, pageConfig, doneAtResume>>

\* The timer of waitForRateLimit fires for the next item of translateParallel
\* and its backend call is made.
RateLimitPassed(n) ==
  /\ loops[n].pc = "parallel"
  /\ loops[n].queue # <<>>
  /\ loops' = [loops EXCEPT ![n].queue = Tail(@),
                            ![n].inflight = @ \cup {Head(loops[n].queue)}]
  /\ UNCHANGED <<pageFrame, pageConfig, progressItems, isTranslating,
                 isPaused, currentIndex, translationInProgress, halted,
                 doneAtResume>>

\* The item-complete callback of translateParallel for position p; after
\* the last one translateParallel returns and the handler ends.
ItemCompleted(n, p, success) ==
  /\ loops[n].pc = "parallel"
  /\ p \in loops[n].inflight
  /\ LET l == [loops[n] EXCEPT !.inflight = @ \ {p}]
         st == [PageState EXCEPT
                  !.items = UpdatedItems(progressItems, progressItems[p].key,
                              success,
                              TranslationOf(progressItems[p].originalValue))]
     IN Commit(n, IF l.queue = <<>> /\ l.inflight = {}
                  THEN Finish(l, st)
                  ELSE [loop |-> l, st |-> st])
  /\ UNCHANGED <<pageFrame, pageConfig, halted, doneAtResume>>

\* await translator.translateKey(...) of the legacy loop returns: the item
\* at the loop's index is updated, and the loop waits 500 ms if the flag is
\* set, else it leaves the loop.
KeyTranslated(n, success) ==
  /\ loops[n].pc = "await"
  /\ LET p == CHOOSE q \in loops[n].inflight : TRUE
         l == [loops[n] EXCEPT !.inflight = {}]
         st == [PageState EXCEPT
                  !.items[p].status = IF success THEN "completed" ELSE "error",
                  !.items[p].translatedValue =
                     IF success
                     THEN TranslationOf(progressItems[p].originalValue)
                     ELSE <<>>]
     IN Commit(n, IF st.current
                  THEN [loop |-> [l EXCEPT !.pc = "delay"], st |-> st]
                  ELSE LegacyLoop(l, st))
  /\ UNCHANGED <<pageFrame, pageConfig, halted, doneAtResume>>

\* setTimeout(resolve, 500) fires: i++ and the loop condition
DelayOver(n) ==
  /\ loops[n].pc = "delay"
  /\ Commit(n, LegacyLoop(loops[n], PageState))
  /\ UNCHANGED <<pageFrame, pageConfig, halted, doneAtResume>>

InitPage ==
  /\ items = <<>>
  /\ provider = "openai"
  /\ maxConcurrentRequests = 1
  /\ Constructed
  /\ originalJSONText \in SourceTexts
  /\ source = Null
  /\ extracted = <<>>
  /\ translationMap = <<>>
  /\ translated = Null
  /\ applyErrors = <<>>
  /\ progressItems = ItemsOf(originalJSONText)
  /\ produced = FALSE
  /\ step = "idle"
  /\ NoRetry
  /\ NoBatchRun
  /\ NoRetryFailed
  /\ NoKeyCall
  /\ NotParsing
  /\ validation = NoValidation
  /\ isConfigured = FALSE
  /\ useOptimizedTranslation = TRUE
  /\ isTranslating = FALSE
  /\ isPaused = FALSE
  /\ currentIndex = 0
  /\ translationInProgress = FALSE
  /\ loops = <<>>
  /\ halted = {}
  /\ doneAtResume = {}

NextPage ==
  \/ ValidateValue
  \/ HandleConfigSave
  \/ \E enabled \in BOOLEAN : OptimizationToggle(enabled)
  \/ HandleStartTranslation
  \/ \E n \in 1 .. Len(loops) : Notified(n)
  \/ HandlePauseTranslation
  \/ HandleResumeTranslation
  \/ HandleStopTranslation
  \/ RetryFailedPressed
  \/ \E n \in 1 .. Len(loops) : RateLimitPassed(n)
  \/ \E n \in 1 .. Len(loops) :
       \E p \in loops[n].inflight, success \in BOOLEAN :
         ItemCompleted(n, p, success)
  \/ \E n \in 1 .. Len(loops), success \in BOOLEAN : KeyTranslated(n, success)
  \/ \E n \in 1 .. Len(loops) : DelayOver(n)

SpecPage == InitPage /\ [][NextPage]_vars

TypePage == Len(loops) <= MaxLoops


---------------------------------------------------------------------------
(* Properties of the translation page *)

\* The backend calls loop n makes in this step
Dispatched(n) ==
  IF n \in 1 .. Len(loops) THEN loops'[n].inflight \ loops[n].inflight
  ELSE loops'[n].inflight

\* C24: validateForTranslation returns valid = true exactly when the text
\* parses as JSON and has a string leaf with something other than
\* whitespace in it, and keyCount is then the number of entries
\* extractTranslatableKeys returns; otherwise it returns valid = false with
\* an error; it never throws; and a page with no extracted item makes no
\* backend call.
C24_ValidationGate ==
  LET r == ValidateForTranslation(originalJSONText)
      parses == originalJSONText.kind = "json"
  IN /\ ~r.threw
     /\ r.valid <=> (parses /\ StringLeaves(originalJSONText.value) # {})
     /\ r.valid =>
          r.keyCount = Len(ExtractTranslatableKeys(originalJSONText.value))
     /\ ~r.valid => r.error # "none"
     /\ (validation # NoValidation /\ originalJSONText # BlankText) =>
          validation = r
     /\ progressItems = <<>> =>
          /\ loops = <<>>
          /\ ~translationInProgress /\ ~isTranslating

\* A text that parses and has no translatable leaf was validated, and
\* the page is configured.
C24_Witness ==
  /\ originalJSONText = TextOf(Str(<<" ">>))
  /\ validation # NoValidation /\ ~validation.valid
  /\ validation.error = "No translatable strings found in the JSON"
  /\ isConfigured

\* A text with translatable leaves was validated and a run is under way.
C24_ValidWitness ==
  /\ validation.valid /\ validation.keyCount = 2
  /\ \E n \in 1 .. Len(loops) : loops[n].inflight # {}

\* C27: an item whose status is completed keeps its status and its
\* translatedValue in every step of the page (the source text is not
\* replaced in these runs).
C27_CompletedIsTerminal ==
  [][\A p \in 1 .. Len(progressItems) :
       progressItems[p].status = "completed" =>
         /\ progressItems'[p].status = "completed"
         /\ progressItems'[p].translatedValue =
              progressItems[p].translatedValue]_vars

\* C28: a loop that was running when pause or stop was pressed starts no
\* backend call (until start, resume or retry is pressed again), and the
\* items completed stay completed meanwhile.
C28_NoCallAfterPause ==
  [][\A n \in halted :
       /\ Dispatched(n) = {}
       /\ CompletedPositions(progressItems)
            \subseteq CompletedPositions(progressItems')]_vars

\* The part of C28 about backend calls
NoDispatchAfterPause == [][\A n \in halted : Dispatched(n) = {}]_vars

\* The legacy loop does test the flag: it starts no call after pause or
\* stop until start, resume or retry is pressed again.
LegacyLoopHalts ==
  [][\A n \in halted : ~loops[n].optimized => Dispatched(n) = {}]_vars

\* C29: at most one loop is running at any time, and no item has a backend
\* call in flight from two loops.
C29_OneLoop ==
  /\ Cardinality({n \in 1 .. Len(loops) : Live(n)}) <= 1
  /\ \A n, m \in 1 .. Len(loops) :
       n # m => loops[n].inflight \cap loops[m].inflight = {}

\* C30: no item that was completed when resume was last pressed is sent to
\* the backend afterwards.
C30_ResumeSkipsCompleted ==
  [][\A n \in 1 .. Len(loops') : Dispatched(n) \cap doneAtResume' = {}]_vars

\* The loop that resume starts sends none of the items that were
\* completed when it was pressed.
ResumedLoopSkipsCompleted ==
  [][HandleResumeTranslation =>
       Dispatched(Len(loops')) \cap doneAtResume' = {}]_vars


---------------------------------------------------------------------------
(* Properties of the rate governor, the slot counter and the progress     *)
(* reports of translateParallel and translateBatch                         *)

\* The backend calls started in this step, as positions of calls'
NewCalls == (Len(calls) + 1) .. Len(calls')

\* waitForRateLimit of call k has returned, or its timer is what fires in
\* this step, and processBatch has not yet made a request since.
JustAdmitted(k) == batchPc[k] \in {"admitted", "ratewait"}

\* C31: every backend call made for a cache miss is preceded by its own
\* admission through waitForRateLimit; in translateBatch both the batch
\* request and every individual fallback request after a batch failure.
C31_AdmissionBeforeCall ==
  [][\A c \in NewCalls : JustAdmitted(calls'[c].by)]_vars

\* The part of C31 about the batch request itself
BatchRequestAdmitted ==
  [][\A c \in NewCalls : calls'[c].item = 0 => JustAdmitted(calls'[c].by)]_vars

\* The part of C31 about translateParallel: a worker calls translateKey
\* only on returning from waitForRateLimit.
ParallelCallAdmitted ==
  [][\A c \in NewCalls :
       \E w \in Workers :
         /\ cur[w] = calls'[c].item
         /\ pc[w] \in {"admitted", "ratewait"} /\ pc'[w] = "backend"
         /\ lastRequestTime' = now]_vars


\* processNextBatch call k has done activeRequests++ and its finally block
\* has not run yet.
InFlight(k) == batchPc[k] \in {"batchcall", "individual", "processed", "threw"}

\* The workers and processNextBatch calls that hold a slot
SlotHolders ==
  Cardinality({w \in Workers : Holding(w)})
    + Cardinality({k \in BatchCalls : InFlight(k)})

\* C32: every increment of activeRequests is matched by one decrement,
\* whether the item or batch succeeded, failed, threw, or a callback threw:
\* activeRequests counts exactly the items and batches being processed, is
\* never negative, and is 0 when none is.
C32_SlotsBalanced ==
  /\ activeRequests >= 0
  /\ activeRequests = SlotHolders
  /\ SlotHolders = 0 => activeRequests = 0

\* A translateBatch run in which an individual request failed, a callback
\* threw, a call rejected, and every slot has been given back
C32_Witness ==
  /\ failedItems # {} /\ callbackThrew
  /\ \E k \in BatchCalls : batchPc[k] = "rejected"
  /\ \E k \in BatchCalls : batchPc[k] = "done"
  /\ launched >= 2
  /\ activeRequests = 0

\* The same for translateParallel: a worker's callback threw after a
\* failed outcome, and every slot has been given back
ParallelSlotsReleased ==
  /\ failedItems # {} /\ callbackThrew
  /\ \E w \in Workers : pc[w] = "rejected"
  /\ Len(pushed) >= 2
  /\ activeRequests = 0


\* The last record passed to onProgress
LastProgress == progress[Len(progress)].record

\* The first two parts of C33: the completed counts passed to onProgress
\* increase strictly and never exceed total = items.length, and a record
\* reporting n completed items is passed when at least n outcomes have
\* been pushed.
ProgressIncreases ==
  \A i \in 1 .. Len(progress) :
    /\ progress[i].record.total = Len(items)
    /\ progress[i].record.completed >= 1
    /\ progress[i].record.completed <= progress[i].record.total
    /\ i > 1 =>
         progress[i].record.completed > progress[i - 1].record.completed
    /\ progress[i].outcomes >= progress[i].record.completed

\* The last part of C33: when a run that was not cancelled has resolved,
\* the last record reports every item completed and 100 percent.
LastProgressIsTotal ==
  (promise = "resolved" /\ ~cancelCalled /\ items # <<>>) =>
    /\ progress # <<>>
    /\ LastProgress.completed = LastProgress.total
    /\ LastProgress.percentage = 100

\* C33: within one run the records passed to onProgress have a strictly
\* increasing completed count that never exceeds items.length, each is
\* passed after its item or batch has produced its outcomes, and in a run
\* that is not cancelled the last record has completed = total and
\* percentage = 100.
C33_ProgressReports == ProgressIncreases /\ LastProgressIsTotal


\* A translateKey call of a worker or of a processBatch is outstanding.
CallOutstanding ==
  \/ \E w \in Workers : pc[w] = "backend"
  \/ \E k \in BatchCalls : batchPc[k] \in {"batchcall", "individual"}

\* C34: once the promise of translateParallel or translateBatch has
\* resolved the run is over: no backend call is outstanding or started
\* later, and no onProgress, onItemComplete or onBatchComplete callback is
\* invoked afterwards (the callbacks are invoked where completedCount is
\* advanced).
C34_ResolvedIsOver ==
  [][/\ promise' = "resolved" => ~CallOutstanding'
     /\ promise = "resolved" =>
          UNCHANGED <<calls, completedCount, progress>>]_vars

\* The part of C34 about calls in flight at the moment of resolution
NoCallOutstandingAtResolve == promise = "resolved" => ~CallOutstanding


---------------------------------------------------------------------------
(* Properties of the shared queue of translateParallel *)

\* The number of positions of the sequence s that satisfy Test
Count(s, Test(_)) == Cardinality({j \in 1 .. Len(s) : Test(s[j])})

\* C35: within one translateParallel run every item is taken from the
\* shared queue by one worker and processed at most once: it is in the
\* queue, held by exactly one worker, or has its one outcome; it is never
\* passed to the backend twice, never has two outcomes and never triggers
\* onItemComplete twice.
C35_AtMostOnce ==
  starting > 0 =>
    \A i \in 1 .. Len(items) :
      /\ Count(requestQueue, LAMBDA q : q = i)
           + Cardinality({w \in Workers : Holding(w) /\ cur[w] = i})
           + Count(pushed, LAMBDA id : id = items[i].id) = 1
      /\ Count(calls, LAMBDA c : c.item = i) <= 1
      /\ Count(results, LAMBDA r : r.id = items[i].id) <= 1
      /\ Count(pushed, LAMBDA id : id = items[i].id) <= 1

\* Two workers hold different items of a three-item run at the same time,
\* both at the backend, while the third item is still in the queue.
C35_Witness ==
  /\ Len(items) = 3 /\ requestQueue = <<3>>
  /\ \E w1, w2 \in Workers :
       /\ w1 # w2 /\ pc[w1] = "backend" /\ pc[w2] = "backend"
       /\ cur[w1] # cur[w2]

\* The same run, resolved with its three outcomes
AllTakenOnce ==
  /\ Resolved /\ Len(items) = 3 /\ maxConcurrentRequests = 2
  /\ Len(returned) = 3 /\ Len(calls) = 3


---------------------------------------------------------------------------
(* Termination of translateBatch and translateParallel.  The safety       *)
(* specifications follow the clock up to a horizon.  Here time also       *)
(* passes beyond it: the clock reading is then kept and every time stamp  *)
(* the program computes with is moved back by the time that passed, which *)
(* leaves all the differences the code computes as they are.  A stamp is  *)
(* not moved back further than the code can tell apart.  requestTimes,    *)
(* which the code appends to and filters but never reads, keeps the       *)
(* stamps as they were read from the clock.                                *)

\* The stamp t after d milliseconds have passed, told apart down to floor
Back(t, d, floor) == IF t - d >= floor THEN t - d ELSE floor

\* The timers of a translateBatch run that have not fired
BatchWakes ==
  {batchWake[k] : k \in {j \in BatchCalls : batchPc[j] = "ratewait"}}
    \cup (IF mainPc = "poll" THEN {mainWake} ELSE {})

\* Time passes until the next timer of translateBatch is due.
BatchAdvance ==
  /\ starting > 0 /\ ~StartingBatches /\ microtasks = <<>> /\ ~BatchTimerDue
  /\ now >= BatchHorizon
  /\ BatchWakes # {}
  /\ LET next == CHOOSE t \in BatchWakes : \A u \in BatchWakes : t <= u
         d == next - now
     IN /\ batchWake' = [k \in BatchCalls |->
                           IF batchPc[k] = "ratewait"
                           THEN batchWake[k] - d ELSE batchWake[k]]
        /\ mainWake' = IF mainPc = "poll" THEN mainWake - d ELSE mainWake
        /\ lastRequestTime' =
             Back(lastRequestTime, d, now - BatchMinInterval)
  /\ UNCHANGED <<batchFrame, activeRequests, completedCount, cache,
                 requestTimes, starting, promise, returned, now, calls,
                 failedItems, callbackThrew,
                 progress, batches, allResults, launched, held, batchPc,
                 uncachedItems, batchResults, fallbackAt, microtasks, mainPc,
                 initialPromises, batchFailed, parseFailed>>

\* The item lists of the runs followed to their end: one key, and the
\* source text of the first item again in the third
TerminationItemLists ==
  { [i \in 1 .. n |->
       BatchItem(i, <<"b">>, IF i = 2 THEN "Cancel" ELSE "Save")]
    : n \in BatchLengths }

InitBatchTermination ==
  /\ items \in TerminationItemLists
  /\ provider \in Providers
  /\ maxConcurrentRequests \in ConcurrencyLevels
  /\ maxBatchSize \in BatchSizes
  /\ Constructed
  /\ NoDocument
  /\ NotCalled
  /\ NoRetryFailed
  /\ NoKeyCall
  /\ NoPage
  /\ NotParsing

BatchRuns == NextBatch \/ BatchAdvance

\* What the event loop does once translateBatch has been called
BatchSteps ==
  \/ StartBatch
  \/ \E k \in BatchCalls : Admitted(k)
  \/ \E k \in BatchCalls : RateTimerFires(k)
  \/ \E k \in BatchCalls :
       \E r \in BatchResponses(Len(uncachedItems[k])) : BatchReturn(k, r)
  \/ \E k \in BatchCalls, ok \in BOOLEAN : IndividualReturn(k, ok)
  \/ \E k \in BatchCalls, cb \in {"return", "throw"} : Processed(k, cb)
  \/ \E k \in BatchCalls : Settled(k)
  \/ Resume
  \/ PollFires
  \/ BatchTick
  \/ BatchAdvance

\* The event loop runs what is runnable, timers fire, and every backend
\* call returns.
SpecBatchTermination ==
  /\ InitBatchTermination
  /\ [][BatchRuns]_vars
  /\ WF_vars(BatchSteps)
  /\ WF_vars(\E k \in BatchCalls :
               \E r \in BatchResponses(Len(uncachedItems[k])) :
                 BatchReturn(k, r))
  /\ WF_vars(\E k \in BatchCalls, ok \in BOOLEAN : IndividualReturn(k, ok))

\* A worker or a processNextBatch call waits for a timer, or translateBatch
\* does in its polling loop.
Waiting ==
  \/ \E w \in Workers : pc[w] \in {"ratewait", "poll"}
  \/ \E k \in BatchCalls : batchPc[k] = "ratewait"
  \/ mainPc = "poll"

\* C36: if every backend call returns and every timer fires, a run of
\* translateParallel or translateBatch that has been called settles, and
\* no worker or call is left waiting in the concurrency poll or the
\* rate-limit wait.
C36_Terminates == <>[](starting > 0 => (promise # "pending" /\ ~Waiting))

\* A run of three batches on one slot has resolved and each of its calls
\* has finished.
C36_Witness ==
  /\ promise = "resolved"
  /\ launched = 3 /\ maxConcurrentRequests = 1
  /\ \A k \in 1 .. 3 : batchPc[k] = "done"
  /\ ~Waiting


\* The timers of a translateParallel run that have not fired
ParallelWakes == {wake[w] : w \in {v \in Workers : pc[v] \in {"ratewait", "poll"}}}

\* Time passes until the next timer of translateParallel is due.
Advance ==
  /\ UNCHANGED <<jsonVars, batchVars, mergeVars, keyVars, pageVars, parseVars>>
  /\ starting > 0 /\ ~Starting /\ ~MicrotaskPending /\ ~TimerDue
  /\ now >= Horizon
  /\ ParallelWakes # {}
  /\ LET next == CHOOSE t \in ParallelWakes : \A u \in ParallelWakes : t <= u
         d == next - now
     IN /\ wake' = [w \in Workers |->
                      IF pc[w] \in {"ratewait", "poll"}
                      THEN wake[w] - d ELSE wake[w]]
        /\ lastRequestTime' = Back(lastRequestTime, d, now - MinInterval)
  /\ UNCHANGED <<configVars, requestQueue, activeRequests, completedCount,
                 cache, requestTimes, cancelled, results, starting, pc, cur,
                 pend, promise, returned, now, historyVars>>

ParallelRuns == Next \/ Advance

\* What the event loop does once translateParallel has been called;
\* cancel() is the caller's choice.
ParallelSteps ==
  \/ StartWorker
  \/ \E w \in Workers : TimerFires(w)
  \/ \E w \in Workers : Dispatch(w)
  \/ \E w \in Workers, r \in BackendResults, cb \in {"return", "throw"} :
       BackendReturn(w, r, cb)
  \/ \E w \in Workers, cb \in {"return", "throw"} : Complete(w, cb)
  \/ Resolve
  \/ Tick
  \/ Advance

SpecTermination ==
  /\ Init
  /\ [][ParallelRuns]_vars
  /\ WF_vars(ParallelSteps)
  /\ WF_vars(\E w \in Workers, r \in BackendResults, cb \in {"return", "throw"} :
               BackendReturn(w, r, cb))

\* A cancelled translateParallel run has resolved, and so has one whose
\* three items went through the rate-limit wait one after the other.
ParallelRunsEnd ==
  /\ promise = "resolved" /\ ~Waiting
  /\ \/ cancelCalled /\ Len(returned) < Len(items)
     \/ Len(calls) = 3 /\ maxConcurrentRequests = 1


---------------------------------------------------------------------------
(* groupItemsIntoBatches as a function of its argument *)

\* The key paths of the items given to groupItemsIntoBatches
GroupKeys ==
  {<<"b">>, <<"a", ".", "b">>, <<"a", "[", "0", "]">>, <<"a", "-", "b">>,
   <<"a", "[", "0", "]", ".", "b">>}

GroupItemLists ==
  UNION { { [i \in 1 .. n |-> BatchItem(i, f[i], "Save")]
              : f \in [1 .. n -> GroupKeys] }
          : n \in 0 .. MaxItems }

InitGroup ==
  /\ items \in GroupItemLists
  /\ provider = "openai"
  /\ maxConcurrentRequests \in ConcurrencyLevels
  /\ maxBatchSize \in BatchSizes
  /\ Constructed
  /\ NoDocument
  /\ NotCalled
  /\ NoRetryFailed
  /\ NoKeyCall
  /\ NoPage
  /\ NotParsing

\* const batches = this.groupItemsIntoBatches(items), in translateBatch
NextGroup == TranslateBatch

SpecGroup == InitGroup /\ [][NextGroup]_vars

\* groupItemsIntoBatches has returned batches and no batch has been taken.
Grouped == starting > 0 /\ launched = 0

\* The text of a path before its first "." or "["
CoarseSection(key) ==
  IF \E i \in 1 .. Len(key) : key[i] \in {".", "["}
  THEN SubSeq(key, 1, (CHOOSE i \in 1 .. Len(key) :
                         /\ key[i] \in {".", "["}
                         /\ \A j \in 1 .. i - 1 : key[j] \notin {".", "["})
                      - 1)
  ELSE key

\* The batches hold every item of the input once, each batch has 1 to
\* maxBatchSize items, and every batch but the last is full.
Partitioned(bs) ==
  /\ Len(Flatten(bs)) = Len(items)
  /\ \A i \in 1 .. Len(items) :
       Cardinality({j \in 1 .. Len(Flatten(bs)) : Flatten(bs)[j] = items[i]})
         = 1
  /\ \A b \in 1 .. Len(bs) : Len(bs[b]) \in 1 .. maxBatchSize
  /\ \A b \in 1 .. Len(bs) - 1 : Len(bs[b]) = maxBatchSize

\* No item comes before an item of a smaller key, by the key Section.
OrderedBy(Section(_), bs) ==
  \A j, k \in 1 .. Len(Flatten(bs)) :
    j < k => ~LocaleBefore(Section(Flatten(bs)[k].key),
                           Section(Flatten(bs)[j].key))

\* C37: groupItemsIntoBatches partitions its input into batches of
\* maxBatchSize items (the last may be shorter), the items are ordered by
\* the section key, which is the text of the path before its first "." or
\* "[", and the input array is left as it was.
C37_GroupingPartitions ==
  [][(~Grouped /\ Grouped') =>
       /\ Partitioned(batches')
       /\ OrderedBy(CoarseSection, batches')
       /\ items' = items]_vars

\* What does hold: the partition, the input array, and the order by the
\* key the code computes (the text before the first ".", or before the
\* first "[" when that text is empty).
GroupedBySplitKey ==
  [][(~Grouped /\ Grouped') =>
       /\ Partitioned(batches')
       /\ OrderedBy(SectionKey, batches')
       /\ items' = items]_vars

---------------------------------------------------------------------------
(* parseBatchResponse as a function of its arguments *)

\* response.split("\n")
RECURSIVE SplitLines(_)
SplitLines(text) ==
  IF \A i \in 1 .. Len(text) : text[i] # "\n" THEN <<text>>
  ELSE LET n == CHOOSE i \in 1 .. Len(text) :
                  /\ text[i] = "\n"
                  /\ \A j \in 1 .. i - 1 : text[j] # "\n"
       IN  <<SubSeq(text, 1, n - 1)>>
             \o SplitLines(SubSeq(text, n + 1, Len(text)))

\* s.startsWith(p)
StartsWith(s, p) == Len(s) >= Len(p) /\ SubSeq(s, 1, Len(p)) = p

\* s.replace(p, ""), p a string: the first occurrence of p is removed.
ReplaceFirst(s, p) ==
  LET at == {i \in 1 .. Len(s) - Len(p) + 1 : SubSeq(s, i, i + Len(p) - 1) = p}
  IN  IF at = {} THEN s
      ELSE LET i == CHOOSE a \in at : \A b \in at : a <= b
           IN  SubSeq(s, 1, i - 1) \o SubSeq(s, i + Len(p), Len(s))

Quotes == {"\"", "'"}

\* s.replace(/^["']|["']$/g, "")
StripQuotes(s) ==
  LET t == IF s # <<>> /\ s[1] \in Quotes THEN Tail(s) ELSE s
  IN  IF t # <<>> /\ t[Len(t)] \in Quotes THEN SubSeq(t, 1, Len(t) - 1) ELSE t

\* A prefix without the full stop
BarePrefix(i) == IntToString(i)

\* const expectedPrefix = `${i + 1}.`, for the 1-based position i
ExpectedPrefix(i) == IntToString(i) \o <<".">>

\* parseBatchResponse(response, items)
ParseResponseText(text, its) ==
  LET lines == SelectSeq(SplitLines(text), LAMBDA l : Trim(l) # <<>>)
      Translation(i) ==
        LET found == {n \in 1 .. Len(lines) :
                        StartsWith(Trim(lines[n]), ExpectedPrefix(i))}
        IN  IF found = {} THEN <<>>
            ELSE LET n == CHOOSE a \in found : \A b \in found : a <= b
                 IN  StripQuotes(Trim(ReplaceFirst(lines[n],
                                                   ExpectedPrefix(i))))
  IN  [i \in 1 .. Len(its) |-> Translation(i)]

\* The lines a backend answers with
ResponseLines ==
  {<<"1", ".", " ", "\"", "H", "i", "\"">>,
   <<"2", ".", " ", "'", "H", "o", "'">>,
   <<"1", "0", ".", " ", "H", "o">>,
   <<" ", "1", ".", " ", "H", "o", " ">>,
   <<"1", ".", "\"", "H", "i">>,
   <<>>,
   <<" ">>,
   <<"H", "i", " ", "1", ".", " ", "H", "o">>,
   <<"2", ".">>,
   <<"3", ".", " ", "\"">>,
   <<"2", ".", " ", "1", ".", " ", "H", "i">>,
   <<"0", "1", ".", " ", "H", "i">>}

MaxResponseLines == 2

\* lines.join("\n")
RECURSIVE JoinLines(_)
JoinLines(ls) ==
  IF ls = <<>> THEN <<>>
  ELSE IF Len(ls) = 1 THEN ls[1]
  ELSE ls[1] \o <<"\n">> \o JoinLines(Tail(ls))

ResponseTexts ==
  UNION { { JoinLines(f) : f \in [1 .. n -> ResponseLines] }
          : n \in 0 .. MaxResponseLines }

ParseItemLists ==
  { [i \in 1 .. n |-> BatchItem(i, <<"b">>, "Save")] : n \in 0 .. MaxItems }

InitParse ==
  /\ items \in ParseItemLists
  /\ provider = "openai"
  /\ maxConcurrentRequests = 1
  /\ Constructed
  /\ NoDocument
  /\ NoBatchRun
  /\ NoRetryFailed
  /\ NoKeyCall
  /\ NoPage
  /\ batchResponse \in ResponseTexts
  /\ parsedLines = <<>>
  /\ parsePc = "init"

\* const translations = this.parseBatchResponse(response, items)
ParseBatch ==
  /\ parsePc = "init"
  /\ parsedLines' = ParseResponseText(batchResponse, items)
  /\ parsePc' = "returned"
  /\ UNCHANGED <<parVars, jsonVars, batchVars, mergeVars, keyVars, pageVars,
                 batchResponse>>

NextParse == ParseBatch

SpecParse == InitParse /\ [][NextParse]_vars

\* The number of blanks a line starts with
LeadingBlanks(l) ==
  CHOOSE n \in 0 .. Len(l) :
    /\ \A j \in 1 .. n : IsWhitespace(l[j])
    /\ n = Len(l) \/ ~IsWhitespace(l[n + 1])

\* The number of blanks a line ends with
TrailingBlanks(l) ==
  CHOOSE n \in 0 .. Len(l) :
    /\ \A j \in Len(l) - n + 1 .. Len(l) : IsWhitespace(l[j])
    /\ n = Len(l) \/ ~IsWhitespace(l[Len(l) - n])

\* The line is numbered i: after its blanks come the digits of i and a
\* full stop.
Numbered(l, i) ==
  LET b == LeadingBlanks(l)
      d == IntToString(i)
  IN  /\ Len(l) >= b + Len(d) + 1
      /\ \A j \in 1 .. Len(d) : l[b + j] = d[j]
      /\ l[b + Len(d) + 1] = "."

\* The number a line starts with, 0 for a line that starts with none
LineNumber(l) ==
  LET b == LeadingBlanks(l)
      n == CHOOSE k \in 0 .. Len(l) - b :
             /\ \A j \in 1 .. k : IsDigit(l[b + j])
             /\ b + k = Len(l) \/ ~IsDigit(l[b + k + 1])
  IN  IF n > 0 /\ b + n < Len(l) /\ l[b + n + 1] = "."
      THEN ParseInt(SubSeq(l, b + 1, b + n))
      ELSE 0

\* The text of a line numbered i: what follows the number and the full
\* stop, without the blanks around it and without one quote on each side.
NumberedText(l, i) ==
  LET rest  == SubSeq(l, LeadingBlanks(l) + Len(IntToString(i)) + 2, Len(l))
      inner == SubSeq(rest, LeadingBlanks(rest) + 1,
                      IF LeadingBlanks(rest) = Len(rest) THEN Len(rest)
                      ELSE Len(rest) - TrailingBlanks(rest))
      open  == IF inner # <<>> /\ inner[1] \in Quotes THEN 1 ELSE 0
      close == IF Len(inner) > open /\ inner[Len(inner)] \in Quotes
               THEN 1 ELSE 0
  IN  SubSeq(inner, 1 + open, Len(inner) - close)

\* The lines of the response, in order
LinesOf(text) ==
  LET breaks == {i \in 1 .. Len(text) : text[i] = "\n"}
      starts == {1} \cup {i + 1 : i \in breaks}
      EndOf(s) == IF \E i \in breaks : i >= s
                  THEN (CHOOSE i \in breaks :
                          i >= s /\ \A j \in breaks : j >= s => i <= j) - 1
                  ELSE Len(text)
  IN  {<<s, SubSeq(text, s, EndOf(s))>> : s \in starts}

\* C38: parseBatchResponse returns one string for every item, in item
\* order: position i holds the text of the first line of the response that
\* begins (after blanks) with "i.", without that prefix and without one
\* quote on each side, and the empty string when the response has no such
\* line; a text taken for position i comes from a line whose number is i.
C38_ParsedByNumber ==
  parsePc = "returned" =>
    /\ Len(parsedLines) = Len(items)
    /\ \A i \in 1 .. Len(items) :
         LET mine == {l \in LinesOf(batchResponse) : Numbered(l[2], i)}
         IN  /\ mine = {} => parsedLines[i] = <<>>
             /\ mine # {} =>
                  LET first == CHOOSE l \in mine :
                                 \A m \in mine : l[1] <= m[1]
                  IN  /\ parsedLines[i] = NumberedText(first[2], i)
                      /\ LineNumber(first[2]) = i

\* The response has the line 10. before a quoted line 1. and no line 2.:
\* position 1 holds the text of line 1. and position 2 is empty.
C38_Witness ==
  /\ parsePc = "returned"
  /\ batchResponse = JoinLines(<< <<"1", "0", ".", " ", "H", "o">>,
                                  <<"1", ".", " ", "\"", "H", "i", "\"">> >>)
  /\ Len(items) = 2
  /\ parsedLines = << <<"H", "i">>, <<>> >>

---------------------------------------------------------------------------
(* Properties of the cache *)

\* The result pushed in this step, when one is
PushedNow == Len(pushed') = Len(pushed) + 1

NewResult == results'[Len(results')]

\* translateKey has been called for the item with this id.
Called(id) ==
  \E c \in 1 .. Len(calls) : items[calls[c].item].id = id

\* Under Spec and SpecRetry: every cache entry is a non-empty translation,
\* kept under the text of a backend call.
CacheEarned ==
  \A v \in DOMAIN cache :
    /\ Truthy(cache[v])
    /\ \E c \in 1 .. Len(calls) : calls[c].value = v

\* The cache changes only in the step in which a backend call returns with
\* success: the entry written is the text of the call's item with the
\* translation returned; a failed call and a processItem that made no call
\* leave the cache as it was.
CacheWrittenBySuccess ==
  [][cache' # cache =>
       /\ PushedNow
       /\ NewResult.success /\ Truthy(NewResult.translatedValue)
       /\ \E w \in Workers :
            /\ pc[w] = "backend" /\ items[cur[w]].id = NewResult.id
            /\ cache' = CacheSet(cache, items[cur[w]].value,
                                 NewResult.translatedValue)]_vars

\* The results that stand for a dispatch that was not made: the run was
\* cancelled during the rate-limit wait, or no translator could be created.
NotDispatched(res) ==
  /\ ~res.success
  /\ res.error \in {"Translation cancelled", "Unsupported translation provider"}

\* A result that comes from no backend call is a cache hit (the text of the
\* item is in the cache with the translation of the result) or stands for
\* a dispatch that was not made.
MissReachesBackend ==
  [][(PushedNow /\ ~Called(NewResult.id)) =>
       \/ NotDispatched(NewResult)
       \/ /\ NewResult.success
          /\ \E i \in 1 .. Len(items) :
               /\ items[i].id = NewResult.id
               /\ items[i].value \in DOMAIN cache
               /\ cache[items[i].value] = NewResult.translatedValue]_vars

\* Every item that retryFailed submits is answered by a backend call,
\* unless its dispatch was not made.
RetryReachesBackend ==
  [][(retryPc = "running" /\ PushedNow) =>
       Called(NewResult.id) \/ NotDispatched(NewResult)]_vars

\* C39: the cache is a memoization layer: every entry is a non-empty
\* translation that a successful backend call returned for the text of the
\* entry; a failed or thrown call never adds or changes an entry; a lookup
\* that misses is followed by a backend call (unless the dispatch is given
\* up), so that the retry of a failed item reaches the backend.
C39_PureMemoization ==
  /\ []CacheEarned
  /\ CacheWrittenBySuccess
  /\ MissReachesBackend
  /\ RetryReachesBackend

\* Under Spec: the same without the retry.
CacheMemoizes ==
  /\ []CacheEarned
  /\ CacheWrittenBySuccess
  /\ MissReachesBackend


\* The results processBatch of call k pushes in this step
NewBatchResults(k) ==
  {batchResults'[k][n] : n \in Len(batchResults[k]) + 1 .. Len(batchResults'[k])}

\* The text of the item with this id
ValueOf(id) == items[IndexOfId(items, id)].value

\* Under SpecBatch: every cache entry is a non-empty translation of a text
\* that a processBatch call sent to the backend; the cache changes only
\* when a batch request or an individual request returns, and then by the
\* successful results pushed in that step; a result pushed while no
\* request returns is a cache hit.
BatchCacheMemoizes ==
  /\ [](\A v \in DOMAIN cache :
          /\ Truthy(cache[v])
          /\ \E c \in 1 .. Len(calls) :
               \E i \in 1 .. Len(uncachedItems[calls[c].by]) :
                 uncachedItems[calls[c].by][i].value = v)
  /\ [][\E k \in BatchCalls :
          /\ \A j \in BatchCalls \ {k} : NewBatchResults(j) = {}
          /\ \A v \in DOMAIN cache' :
               (v \notin DOMAIN cache \/ cache'[v] # cache[v]) =>
                 /\ batchPc[k] \in {"batchcall", "individual"}
                 /\ \E res \in NewBatchResults(k) :
                      /\ res.success /\ ValueOf(res.id) = v
                      /\ res.translatedValue = cache'[v]
          /\ DOMAIN cache \subseteq DOMAIN cache'
          /\ \A res \in NewBatchResults(k) :
               \/ batchPc[k] \in {"batchcall", "individual"}
               \/ /\ res.success
                  /\ ValueOf(res.id) \in DOMAIN cache
                  /\ cache[ValueOf(res.id)] = res.translatedValue]_vars


\* Under SpecKey: translateKey of either backend reports success only with
\* a non-empty translation, so no successful call caches the empty string.
SuccessHasText == keyResult.success => keyResult.translatedValue # <<>>

=============================================================================
